---- MODULE Spec2Model ----
(***************************************************************************)
(* knowhub: the placement / sync engine (commands/sync.ts), the fetch      *)
(* orchestrator (resource.ts), the filesystem primitives (file.ts) and the *)
(* command line entry point (cli.ts), over a small POSIX-like filesystem.  *)
(*                                                                         *)
(* A path is a sequence of names below the project root; the filesystem is *)
(* a function from the existing paths to nodes (file, dir, link).          *)
(***************************************************************************)
EXTENDS Integers, Sequences, FiniteSets, TLC

VARIABLES
  fs,          \* the filesystem: [existing path -> node]
  config,      \* what the configuration search finds: [found, plugins, resources]
  env,         \* [entry, command, dryRun, quiet, symlinkOk]: how the program is started, and the platform
  registry,    \* pluginRegistry: [name -> implementation]
  pc,          \* position of the running invocation
  run,         \* number of the current invocation (1, 2, ...)
  idx,         \* [res, out]: loop indices of fetchResources / runSync / processFetchedResource
  resources,   \* the validated resources loadConfig returned
  fetched,     \* fetchedResources accumulated by fetchResources
  fetchCalls,  \* descriptor indices whose plugin.fetch was invoked, in order
  io,          \* the stat calls and HTTP requests the plugins made while fetching, in
               \* order: [res, call], res the index of the descriptor fetched
  result,      \* SyncResult being accumulated: [created, updated, skipped, errors]
  logs,        \* messages the Logger received in this invocation: [level, message]
  console,     \* messages written with console.* directly, not through the Logger
  thrown,      \* the error that escaped fetchResources (NoError when none)
  returned,    \* what fetchResources returned to its caller (Undefined before, and when it threw)
  steps,       \* one record per output processed in this invocation (per call made on
               \* the registry, when the registry is driven directly)
  exitCode,    \* process exit code of the finished invocation (-1 while running)
  prev         \* [valid, result, fs, steps] of the previous invocation

vars == <<fs, config, env, registry, pc, run, idx, resources, fetched, fetchCalls, io,
          result, logs, console, thrown, returned, steps, exitCode, prev>>

\* ---------------------------------------------------------------- bounds
MaxResources == 3
MaxOutputs == 2
MaxRuns == 2
MaxLinkHops == 2
MaxCalls == 3

\* ------------------------------------------------------- filesystem model
None == [t |-> "none"]
Dir == [t |-> "dir"]
File(c) == [t |-> "file", c |-> c]
Link(to) == [t |-> "link", to |-> to]

\* path.dirname
dirname(p) == IF Len(p) = 0 THEN p ELSE SubSeq(p, 1, Len(p) - 1)

\* path.join(dir, name)
join(p, n) == Append(p, n)

RECURSIVE Normalize(_, _)
\* path normalisation: ".." removes the component before it
Normalize(acc, rest) ==
  IF rest = <<>> THEN acc
  ELSE IF Head(rest) = ".."
       THEN Normalize(dirname(acc), Tail(rest))
       ELSE Normalize(Append(acc, Head(rest)), Tail(rest))

RECURSIVE CommonLen(_, _)
CommonLen(a, b) ==
  IF a = <<>> \/ b = <<>> \/ Head(a) # Head(b) THEN 0
  ELSE 1 + CommonLen(Tail(a), Tail(b))

\* path.relative(from, to): climb out of `from`, then descend into `to`
relative(from, to) ==
  LET k == CommonLen(from, to)
  IN  [i \in 1..(Len(from) - k) |-> ".."] \o SubSeq(to, k + 1, Len(to))

RECURSIVE Walk(_, _, _, _, _)
\* Path resolution of the kernel: follows the links met on the way, and the
\* last one when followLast. [ok, path] or [ok |-> FALSE, err].
Walk(f, cur, rest, followLast, fuel) ==
  IF rest = <<>> THEN [ok |-> TRUE, path |-> cur, err |-> ""]
  ELSE
    LET cand == Append(cur, Head(rest))
        last == Len(rest) = 1
    IN  IF cand \notin DOMAIN f
        THEN IF last THEN [ok |-> TRUE, path |-> cand, err |-> ""]
             ELSE [ok |-> FALSE, path |-> cand, err |-> "ENOENT"]
        ELSE IF f[cand].t = "dir"
        THEN Walk(f, cand, Tail(rest), followLast, fuel)
        ELSE IF f[cand].t = "file"
        THEN IF last THEN [ok |-> TRUE, path |-> cand, err |-> ""]
             ELSE [ok |-> FALSE, path |-> cand, err |-> "ENOTDIR"]
        ELSE \* a link
          IF last /\ ~followLast THEN [ok |-> TRUE, path |-> cand, err |-> ""]
          ELSE IF fuel = 0 THEN [ok |-> FALSE, path |-> cand, err |-> "ELOOP"]
          ELSE Walk(f, <<>>, Normalize(cur, f[cand].to) \o Tail(rest),
                    followLast, fuel - 1)

NodeAt(f, p) == IF p = <<>> THEN Dir ELSE IF p \in DOMAIN f THEN f[p] ELSE None

\* the result of stat for a resolved path
StatAt(f, w) ==
  IF ~w.ok THEN [ok |-> FALSE, err |-> w.err, node |-> None]
  ELSE IF NodeAt(f, w.path).t = "none"
       THEN [ok |-> FALSE, err |-> "ENOENT", node |-> None]
       ELSE [ok |-> TRUE, err |-> "", node |-> NodeAt(f, w.path)]

\* fs.stat: the node a path leads to, links followed
stat(f, p) == StatAt(f, Walk(f, <<>>, p, TRUE, MaxLinkHops))

Put(f, p, node) == [q \in DOMAIN f \cup {p} |-> IF q = p THEN node ELSE f[q]]

\* the result of readFile for a stat result
ReadAt(s) ==
  IF ~s.ok THEN [ok |-> FALSE, err |-> s.err, c |-> ""]
  ELSE IF s.node.t = "dir" THEN [ok |-> FALSE, err |-> "EISDIR", c |-> ""]
  ELSE [ok |-> TRUE, err |-> "", c |-> s.node.c]

\* fs.readFile
readFile(f, p) == ReadAt(stat(f, p))

\* the write at a resolved path
WriteAt(f, w, c) ==
  IF ~w.ok THEN [ok |-> FALSE, err |-> w.err, fs |-> f]
  ELSE IF w.path = <<>> \/ NodeAt(f, w.path).t = "dir"
       THEN [ok |-> FALSE, err |-> "EISDIR", fs |-> f]
       ELSE [ok |-> TRUE, err |-> "", fs |-> Put(f, w.path, File(c))]

\* open(dest, O_WRONLY | O_CREAT | O_TRUNC) and write: fs.writeFile, and the
\* destination side of fs.copyFile. Follows a link at dest.
writeFile(f, p, c) == WriteAt(f, Walk(f, <<>>, p, TRUE, MaxLinkHops), c)

\* the destination side of fs.copyFile, given what reading the source gave
CopyRead(f, r, dest) ==
  IF ~r.ok THEN [ok |-> FALSE, err |-> r.err, fs |-> f]
  ELSE writeFile(f, dest, r.c)

\* fs.copyFile(src, dest)
fsCopyFile(f, src, dest) == CopyRead(f, readFile(f, src), dest)

RECURSIVE MkdirWalk(_, _, _, _)
\* mkdir -p at a link on the way: fine when the link leads to a directory
MkdirLink(f, cand, rest, fuel, s) ==
  IF s.ok /\ s.node.t = "dir" /\ fuel > 0
  THEN MkdirWalk(f, <<>>, Walk(f, <<>>, cand, TRUE, MaxLinkHops).path \o Tail(rest),
                 fuel - 1)
  ELSE [ok |-> FALSE,
        err |-> IF Len(rest) = 1 \/ ~s.ok THEN "EEXIST" ELSE "ENOTDIR", fs |-> f]

\* fs.mkdir(p, {recursive: true}): creates the missing directories along p
MkdirWalk(f, cur, rest, fuel) ==
  IF rest = <<>> THEN [ok |-> TRUE, err |-> "", fs |-> f]
  ELSE
    LET cand == Append(cur, Head(rest))
    IN  IF cand \notin DOMAIN f
        THEN MkdirWalk(Put(f, cand, Dir), cand, Tail(rest), fuel)
        ELSE IF f[cand].t = "dir" THEN MkdirWalk(f, cand, Tail(rest), fuel)
        ELSE IF f[cand].t = "file"
        THEN [ok |-> FALSE, err |-> IF Len(rest) = 1 THEN "EEXIST" ELSE "ENOTDIR",
              fs |-> f]
        ELSE MkdirLink(f, cand, rest, fuel, stat(f, cand))

mkdir(f, p) == MkdirWalk(f, <<>>, p, MaxLinkHops)

\* --------------------------------------------------------------- errors
NoError == [kind |-> "none", msg |-> "", path |-> ""]

\* new FileOperationError(message, filePath, operation)
FileOperationError(msg, filePath) ==
  [kind |-> "FileOperationError", msg |-> msg, path |-> filePath]

\* new ResourceError(message, resourcePath)
ResourceError(msg, resourcePath) ==
  [kind |-> "ResourceError", msg |-> msg, path |-> resourcePath]

\* new PluginError(message, pluginName): the message is prefixed by the plugin
PluginError(msg, pluginName) ==
  [kind |-> "PluginError", msg |-> "Plugin \"" \o pluginName \o "\": " \o msg,
   path |-> pluginName]

\* new PluginConfigurationError(pluginName, field, message)
PluginConfigurationError(pluginName, field, msg) ==
  [kind |-> "PluginConfigurationError",
   msg |-> "Plugin \"" \o pluginName \o "\": Invalid configuration for field \""
           \o field \o "\": " \o msg,
   path |-> pluginName]

\* new PluginNotFoundError(pluginName)
PluginNotFoundError(pluginName) ==
  [kind |-> "PluginNotFoundError", msg |-> "Plugin not found: " \o pluginName,
   path |-> ""]

\* new Error(message)
PlainError(msg) == [kind |-> "Error", msg |-> msg, path |-> ""]

\* a Node.js ErrnoException with the given code
NodeError(code) == [kind |-> "ErrnoException", msg |-> code, path |-> ""]

\* a thrown value that is no Error (throw "text")
ThrownValue(v) == [kind |-> "value", msg |-> v, path |-> ""]

\* error instanceof Error
IsErrorObject(e) == e.kind \notin {"value", "none"}

\* formatError: the message of an Error, String(value) otherwise
formatError(e) == IF IsErrorObject(e) THEN e.msg ELSE "" \o e.msg

RECURSIVE PathStr(_)
\* the string of a path
PathStr(p) ==
  IF p = <<>> THEN ""
  ELSE IF Len(p) = 1 THEN Head(p)
  ELSE Head(p) \o "/" \o PathStr(Tail(p))

RECURSIVE Split(_, _, _)
\* path.resolve(projectRoot, outputPath): the components of the path string
Split(s, i, cur) ==
  IF i > Len(s) THEN (IF cur = "" THEN <<>> ELSE <<cur>>)
  ELSE IF SubSeq(s, i, i) = "/"
       THEN (IF cur = "" THEN <<>> ELSE <<cur>>) \o Split(s, i + 1, "")
       ELSE Split(s, i + 1, cur \o SubSeq(s, i, i))

resolve(outputPath) == Normalize(<<>>, Split(outputPath, 1, ""))

\* substring test on messages
Contains(s, sub) ==
  \E i \in 1..(Len(s) - Len(sub) + 1) : SubSeq(s, i, i + Len(sub) - 1) = sub

\* ------------------------------------------------ filesystem primitives
\* pathExists: stat succeeds
pathExists(f, p) == stat(f, p).ok

\* isDirectory
isDirectory(f, p) == StatAt(f, Walk(f, <<>>, p, TRUE, MaxLinkHops)).node.t = "dir"

\* the catch block of ensureDirectoryExists: EEXIST is swallowed
EnsureCatch(r, dirPath) ==
  IF r.ok \/ r.err = "EEXIST" THEN [ok |-> TRUE, err |-> NoError, fs |-> r.fs]
  ELSE [ok |-> FALSE,
        err |-> FileOperationError("Failed to create directory: " \o PathStr(dirPath),
                                   PathStr(dirPath)),
        fs |-> r.fs]

\* ensureDirectoryExists: mkdir -p
ensureDirectoryExists(f, dirPath) == EnsureCatch(mkdir(f, dirPath), dirPath)

Outcome(f, created, updated) ==
  [ok |-> TRUE, err |-> NoError, fs |-> f, created |-> created, updated |-> updated]

Raise(f, e) ==
  [ok |-> FALSE, err |-> e, fs |-> f, created |-> FALSE, updated |-> FALSE]

\* copyFile, lines 57-62: the copy has been attempted
CopyFileDone(c, existed) ==
  IF ~c.ok THEN Raise(c.fs, NodeError(c.err))
  ELSE IF existed THEN Outcome(c.fs, FALSE, TRUE)
  ELSE Outcome(c.fs, TRUE, FALSE)

\* copyFile, lines 55-57: the parent directory has been ensured
CopyFileWrite(e, src, dest, existed) ==
  IF ~e.ok THEN Raise(e.fs, e.err)
  ELSE CopyFileDone(fsCopyFile(e.fs, src, dest), existed)

\* copyFile without the comparison of contents: an existing destination is
\* rewritten whatever it holds
CopyFileCompareNever(f, src, dest, srcContent, destContent) ==
  IF ~srcContent.ok THEN Raise(f, NodeError(srcContent.err))
  ELSE IF ~destContent.ok THEN Raise(f, NodeError(destContent.err))
  ELSE CopyFileWrite(ensureDirectoryExists(f, dirname(dest)), src, dest, TRUE)

\* copyFile, lines 46-53: both contents have been read
CopyFileCompare(f, src, dest, srcContent, destContent) ==
  IF ~srcContent.ok THEN Raise(f, NodeError(srcContent.err))
  ELSE IF ~destContent.ok THEN Raise(f, NodeError(destContent.err))
  ELSE IF srcContent.c = destContent.c THEN Outcome(f, FALSE, FALSE)
  ELSE CopyFileWrite(ensureDirectoryExists(f, dirname(dest)), src, dest, TRUE)

\* copyFile that takes no notice of overwrite: an existing destination is
\* compared and rewritten as if overwrite were true
CopyFileExistsForced(f, src, dest, overwrite, exists) ==
  IF exists THEN CopyFileCompare(f, src, dest, readFile(f, src), readFile(f, dest))
  ELSE CopyFileWrite(ensureDirectoryExists(f, dirname(dest)), src, dest, FALSE)

\* copyFile, lines 42-55: the destination has been looked up
CopyFileExists(f, src, dest, overwrite, exists) ==
  IF exists /\ ~overwrite THEN Outcome(f, FALSE, FALSE)
  ELSE IF exists /\ overwrite
       THEN CopyFileCompare(f, src, dest, readFile(f, src), readFile(f, dest))
  ELSE CopyFileWrite(ensureDirectoryExists(f, dirname(dest)), src, dest, FALSE)

\* copyFile(src, dest, overwrite)
copyFile(f, src, dest, overwrite) ==
  CopyFileExists(f, src, dest, overwrite, pathExists(f, dest))

\* writeTextFile, lines 182-187: the write has been attempted
WriteTextDone(w, existed) ==
  IF ~w.ok THEN Raise(w.fs, NodeError(w.err))
  ELSE IF existed THEN Outcome(w.fs, FALSE, TRUE)
  ELSE Outcome(w.fs, TRUE, FALSE)

\* writeTextFile, lines 180-182: the parent directory has been ensured
WriteTextWrite(e, dest, content, existed) ==
  IF ~e.ok THEN Raise(e.fs, e.err)
  ELSE WriteTextDone(writeFile(e.fs, dest, content), existed)

\* a writeTextFile that writes over an existing destination without comparing
\* the contents
WriteTextCompareNever(f, dest, content, existingContent) ==
  WriteTextWrite(ensureDirectoryExists(f, dirname(dest)), dest, content, TRUE)

\* writeTextFile, lines 171-180: the existing content has been read; a failed
\* read is swallowed by the empty catch
WriteTextCompare(f, dest, content, existingContent) ==
  IF existingContent.ok /\ existingContent.c = content THEN Outcome(f, FALSE, FALSE)
  ELSE WriteTextWrite(ensureDirectoryExists(f, dirname(dest)), dest, content, TRUE)

\* writeTextFile, lines 167-180: the destination has been looked up
WriteTextExists(f, dest, content, overwrite, exists) ==
  IF exists /\ ~overwrite THEN Outcome(f, FALSE, FALSE)
  ELSE IF exists /\ overwrite THEN WriteTextCompare(f, dest, content, readFile(f, dest))
  ELSE WriteTextWrite(ensureDirectoryExists(f, dirname(dest)), dest, content, FALSE)

\* writeTextFile(dest, content, overwrite)
writeTextFile(f, dest, content, overwrite) ==
  WriteTextExists(f, dest, content, overwrite, pathExists(f, dest))

\* the names a directory can hold, in directory order
NameOrder == <<"a.md", "b", "dir", "empty", "f", "g", "nest", "old.md", "out", "sub">>

\* the directory entries at a resolved path
ReaddirAt(f, w) ==
  IF ~w.ok THEN [ok |-> FALSE, err |-> w.err, entries |-> <<>>]
  ELSE IF NodeAt(f, w.path).t = "none"
       THEN [ok |-> FALSE, err |-> "ENOENT", entries |-> <<>>]
  ELSE IF NodeAt(f, w.path).t # "dir"
       THEN [ok |-> FALSE, err |-> "ENOTDIR", entries |-> <<>>]
  ELSE [ok |-> TRUE, err |-> "",
        entries |-> SelectSeq([i \in 1..Len(NameOrder) |->
                                 [name |-> NameOrder[i],
                                  t |-> NodeAt(f, Append(w.path, NameOrder[i])).t]],
                              LAMBDA e : e.t # "none")]

\* fs.readdir(p, {withFileTypes: true}): the entries of a directory
readdir(f, p) == ReaddirAt(f, Walk(f, <<>>, p, TRUE, MaxLinkHops))

\* fs.symlink preceded by the removal of whatever is at dest
SymlinkAtForce(f, w, target, symlinkOk) ==
  IF ~w.ok THEN [ok |-> FALSE, err |-> w.err, fs |-> f]
  ELSE IF ~symlinkOk THEN [ok |-> FALSE, err |-> "EPERM", fs |-> f]
  ELSE [ok |-> TRUE, err |-> "",
        fs |-> Put([p \in { q \in DOMAIN f : \/ Len(q) < Len(w.path)
                                             \/ SubSeq(q, 1, Len(w.path)) # w.path }
                      |-> f[p]],
                   w.path, Link(target))]

\* the link made at a resolved path
SymlinkAt(f, w, target, symlinkOk) ==
  IF ~w.ok THEN [ok |-> FALSE, err |-> w.err, fs |-> f]
  ELSE IF NodeAt(f, w.path).t # "none" THEN [ok |-> FALSE, err |-> "EEXIST", fs |-> f]
  ELSE IF ~symlinkOk THEN [ok |-> FALSE, err |-> "EPERM", fs |-> f]
  ELSE [ok |-> TRUE, err |-> "", fs |-> Put(f, w.path, Link(target))]

\* fs.symlink(target, dest): fails when dest names an entry (a dangling link
\* included), or when the platform refuses links
symlink(f, target, dest, symlinkOk) ==
  SymlinkAt(f, Walk(f, <<>>, dest, FALSE, MaxLinkHops), target, symlinkOk)

DirOutcome(f, created, skipped) ==
  [ok |-> TRUE, err |-> NoError, fs |-> f, created |-> created, skipped |-> skipped]

DirRaise(f, e) ==
  [ok |-> FALSE, err |-> e, fs |-> f, created |-> 0, skipped |-> 0]

RECURSIVE copyDirectory(_, _, _, _)
RECURSIVE CopyEntries(_, _, _, _, _, _, _)

\* copyDirectory, lines 82-84: a subdirectory has been copied
CopyEntriesSub(sub, srcDir, destDir, overwrite, rest, created, skipped) ==
  IF ~sub.ok THEN DirRaise(sub.fs, sub.err)
  ELSE CopyEntries(sub.fs, srcDir, destDir, overwrite, rest,
                   created + sub.created, skipped + sub.skipped)

\* copyDirectory, lines 86-91: a file has been copied
CopyEntriesFile(one, srcDir, destDir, overwrite, rest, created, skipped) ==
  IF ~one.ok THEN DirRaise(one.fs, one.err)
  ELSE IF one.created \/ one.updated
       THEN CopyEntries(one.fs, srcDir, destDir, overwrite, rest, created + 1, skipped)
       ELSE CopyEntries(one.fs, srcDir, destDir, overwrite, rest, created, skipped + 1)

\* the for loop of copyDirectory over the entries still to copy
CopyEntries(f, srcDir, destDir, overwrite, entries, created, skipped) ==
  IF entries = <<>> THEN DirOutcome(f, created, skipped)
  ELSE IF Head(entries).t = "dir"
  THEN CopyEntriesSub(copyDirectory(f, join(srcDir, Head(entries).name),
                                    join(destDir, Head(entries).name), overwrite),
                      srcDir, destDir, overwrite, Tail(entries), created, skipped)
  ELSE IF Head(entries).t = "file"
  THEN CopyEntriesFile(copyFile(f, join(srcDir, Head(entries).name),
                                join(destDir, Head(entries).name), overwrite),
                       srcDir, destDir, overwrite, Tail(entries), created, skipped)
  ELSE CopyEntries(f, srcDir, destDir, overwrite, Tail(entries), created, skipped)

\* a copyDirectory that copies the files of the directory and does not go
\* into its subdirectories
CopyDirectoryReadFlat(f, d, srcDir, destDir, overwrite) ==
  IF ~d.ok THEN DirRaise(f, NodeError(d.err))
  ELSE CopyEntries(f, srcDir, destDir, overwrite,
                   SelectSeq(d.entries, LAMBDA e : e.t = "file"), 0, 0)

\* copyDirectory, lines 75-95: the source directory has been read
CopyDirectoryRead(f, d, srcDir, destDir, overwrite) ==
  IF ~d.ok THEN DirRaise(f, NodeError(d.err))
  ELSE CopyEntries(f, srcDir, destDir, overwrite, d.entries, 0, 0)

\* copyDirectory, lines 73-75: the destination directory has been ensured
CopyDirectoryEnsured(e, srcDir, destDir, overwrite) ==
  IF ~e.ok THEN DirRaise(e.fs, e.err)
  ELSE CopyDirectoryRead(e.fs, readdir(e.fs, srcDir), srcDir, destDir, overwrite)

\* copyDirectory(srcDir, destDir, overwrite)
copyDirectory(f, srcDir, destDir, overwrite) ==
  CopyDirectoryEnsured(ensureDirectoryExists(f, destDir), srcDir, destDir, overwrite)

LinkOutcome(f, created, updated, usedSymlink, warned) ==
  [ok |-> TRUE, err |-> NoError, fs |-> f, created |-> created, updated |-> updated,
   usedSymlink |-> usedSymlink, warned |-> warned]

LinkRaise(f, e, warned) ==
  [ok |-> FALSE, err |-> e, fs |-> f, created |-> FALSE, updated |-> FALSE,
   usedSymlink |-> FALSE, warned |-> warned]

\* new FileOperationError for the failure of both strategies
BothFailed(dest) ==
  FileOperationError("Both symlink and copy operations failed for: " \o PathStr(dest),
                     PathStr(dest))

\* symlinkOrCopy letting the error of the fallback directory copy through as
\* it is, instead of raising the composite error
FallbackDirRethrow(cd, dest, exists, warning) ==
  IF cd.ok
  THEN LinkOutcome(cd.fs, cd.created > 0 /\ ~exists, cd.created > 0 /\ exists, FALSE, warning)
  ELSE LinkRaise(cd.fs, cd.err, warning)

\* symlinkOrCopy, lines 135-141: the fallback directory copy has been attempted
FallbackDir(cd, dest, exists, warning) ==
  IF cd.ok
  THEN LinkOutcome(cd.fs, cd.created > 0 /\ ~exists, cd.created > 0 /\ exists, FALSE, warning)
  ELSE LinkRaise(cd.fs, BothFailed(dest), warning)

\* symlinkOrCopy, lines 144-149: the fallback file copy has been attempted
FallbackFile(cf, dest, warning) ==
  IF cf.ok THEN LinkOutcome(cf.fs, cf.created, cf.updated, FALSE, warning)
  ELSE LinkRaise(cf.fs, BothFailed(dest), warning)

\* symlinkOrCopy taking a destination that is already there (EEXIST) for a
\* link made earlier
SymlinkTriedKeep(l, src, dest, overwrite, isDir, exists, warning) ==
  IF l.ok
  THEN IF exists /\ overwrite THEN LinkOutcome(l.fs, FALSE, TRUE, TRUE, "")
       ELSE LinkOutcome(l.fs, TRUE, FALSE, TRUE, "")
  ELSE IF l.err = "EEXIST" THEN LinkOutcome(l.fs, FALSE, TRUE, TRUE, "")
  ELSE IF isDir
  THEN FallbackDir(copyDirectory(l.fs, src, dest, overwrite), dest, exists,
                   "Symlink failed (" \o l.err \o "), " \o warning)
  ELSE FallbackFile(copyFile(l.fs, src, dest, overwrite), dest,
                    "Symlink failed (" \o l.err \o "), " \o warning)

\* symlinkOrCopy, lines 121-157: the symlink call has been attempted
SymlinkTried(l, src, dest, overwrite, isDir, exists, warning) ==
  IF l.ok
  THEN IF exists /\ overwrite THEN LinkOutcome(l.fs, FALSE, TRUE, TRUE, "")
       ELSE LinkOutcome(l.fs, TRUE, FALSE, TRUE, "")
  ELSE IF isDir
  THEN FallbackDir(copyDirectory(l.fs, src, dest, overwrite), dest, exists,
                   "Symlink failed (" \o l.err \o "), " \o warning)
  ELSE FallbackFile(copyFile(l.fs, src, dest, overwrite), dest,
                    "Symlink failed (" \o l.err \o "), " \o warning)

\* symlinkOrCopy, lines 110-121: the parent directory has been ensured
SymlinkEnsured(e, src, dest, overwrite, isDir, exists, symlinkOk) ==
  IF ~e.ok THEN LinkRaise(e.fs, e.err, "")
  ELSE SymlinkTried(symlink(e.fs, relative(dirname(dest), src), dest, symlinkOk),
                    src, dest, overwrite, isDir, exists,
                    "falling back to copy: " \o PathStr(dest))

\* symlinkOrCopy, lines 106-110: the destination has been looked up
SymlinkExists(f, src, dest, overwrite, isDir, exists, symlinkOk) ==
  IF exists /\ ~overwrite THEN LinkOutcome(f, FALSE, FALSE, FALSE, "")
  ELSE SymlinkEnsured(ensureDirectoryExists(f, dirname(dest)), src, dest, overwrite,
                      isDir, exists, symlinkOk)

\* symlinkOrCopy(src, dest, overwrite, isDir)
symlinkOrCopy(f, src, dest, overwrite, isDir, symlinkOk) ==
  SymlinkExists(f, src, dest, overwrite, isDir, pathExists(f, dest), symlinkOk)

\* ------------------------------------------------------------- plugins
Undefined == [def |-> FALSE]
Some(v) == [def |-> TRUE, v |-> v]

\* the HTTP servers of the environment: status and body by URL
HttpResponse(url) ==
  IF url = "https://ok.example/h.md" THEN [status |-> 200, text |-> "OK", body |-> "H"]
  ELSE [status |-> 500, text |-> "Internal Server Error", body |-> "Server Error"]

StatusStr(n) == ToString(n)

\* handleNodeError(error, path, operation): always throws a FileOperationError
handleNodeError(code, path, operation) ==
  IF code = "ENOENT" THEN FileOperationError("Path does not exist: " \o path, path)
  ELSE IF code = "EACCES" THEN FileOperationError("No permission to access path: " \o path, path)
  ELSE IF code = "EPERM" THEN FileOperationError("Operation not permitted: " \o path, path)
  ELSE FileOperationError(operation \o " failed for \"" \o path \o "\": " \o code, path)

PluginOk(localPath, isDir, content, metadata) ==
  [ok |-> TRUE, err |-> NoError, localPath |-> localPath, isDirectory |-> isDir,
   content |-> content, metadata |-> metadata, io |-> <<>>]

PluginThrows(e) ==
  [ok |-> FALSE, err |-> e, localPath |-> Undefined, isDirectory |-> Undefined,
   content |-> Undefined, metadata |-> Undefined, io |-> <<>>]

\* one I/O operation of a plugin: fs.stat of a path, or fetch() of a URL
StatCall(path) == [op |-> "stat", target |-> path, method |-> ""]
RequestCall(url, method) == [op |-> "fetch", target |-> url, method |-> method]

\* the result r of a plugin's fetch, reached through the operations ops
Did(r, ops) == [r EXCEPT !.io = ops]

\* The values a pluginConfig holds. The config itself is a record of its
\* fields, or Undefined when the resource has none; path and url are strings;
\* the optional fields of the http plugin are JavaScript values with their
\* type, an object being the sequence of its [key, value] entries.
JsString(str) == [type |-> "string", v |-> str]
JsNumber(n) == [type |-> "number", v |-> n]
JsObject(entries) == [type |-> "object", v |-> entries]

\* config && typeof config === "object"
IsObject(cfg) == "def" \notin DOMAIN cfg

\* LocalPlugin.validate
LocalValidate(cfg) ==
  IF ~IsObject(cfg) THEN PluginConfigurationError("local", "config", "must be an object")
  ELSE IF cfg.path = ""
  THEN PluginConfigurationError("local", "path", "must be a non-empty string")
  ELSE NoError

\* LocalPlugin.fetch, lines 74-101: the path has been looked up
LocalFetchStat(cfg, absolutePath, stats) ==
  IF stats.ok
  THEN PluginOk(Some(absolutePath), Some(stats.node.t = "dir"), Undefined,
                Some([symlink |-> cfg.symlink]))
  ELSE PluginThrows(PluginError(
         "Failed to access local path \"" \o cfg.path \o "\": "
         \o handleNodeError(stats.err, cfg.path, "access local path").msg, "local"))

\* a LocalPlugin.fetch that checks no more than that its config is an object
\* before it looks the path up
LocalFetchUnchecked(f, cfg) ==
  IF ~IsObject(cfg) THEN PluginThrows(LocalValidate(cfg))
  ELSE Did(LocalFetchStat(cfg, resolve(cfg.path), stat(f, resolve(cfg.path))),
           <<StatCall(resolve(cfg.path))>>)

\* LocalPlugin.fetch(config, context)
LocalFetch(f, cfg) ==
  IF LocalValidate(cfg).kind # "none" THEN PluginThrows(LocalValidate(cfg))
  ELSE Did(LocalFetchStat(cfg, resolve(cfg.path), stat(f, resolve(cfg.path))),
           <<StatCall(resolve(cfg.path))>>)

\* the position of "://" in a string, 0 when there is none
SchemeEnd(str) ==
  IF \E i \in 1..(Len(str) - 2) : SubSeq(str, i, i + 2) = "://"
  THEN CHOOSE i \in 1..(Len(str) - 2) :
         /\ SubSeq(str, i, i + 2) = "://"
         /\ \A j \in 1..(i - 1) : SubSeq(str, j, j + 2) # "://"
  ELSE 0

\* new URL(str): throws unless the string is a scheme, "://" and a host;
\* protocol is the scheme with its colon
NewURL(str) ==
  IF SchemeEnd(str) > 1 /\ SchemeEnd(str) + 2 < Len(str)
  THEN [ok |-> TRUE, protocol |-> SubSeq(str, 1, SchemeEnd(str))]
  ELSE [ok |-> FALSE, protocol |-> ""]

\* String.prototype.startsWith
startsWith(str, prefix) ==
  Len(prefix) <= Len(str) /\ SubSeq(str, 1, Len(prefix)) = prefix

LowerCase == "abcdefghijklmnopqrstuvwxyz"
UpperCase == "ABCDEFGHIJKLMNOPQRSTUVWXYZ"

RECURSIVE toUpperCase(_)
\* String.prototype.toUpperCase
toUpperCase(str) ==
  IF str = "" THEN ""
  ELSE (IF \E k \in 1..26 : SubSeq(LowerCase, k, k) = SubSeq(str, 1, 1)
        THEN SubSeq(UpperCase, CHOOSE k \in 1..26 : SubSeq(LowerCase, k, k) = SubSeq(str, 1, 1),
                    CHOOSE k \in 1..26 : SubSeq(LowerCase, k, k) = SubSeq(str, 1, 1))
        ELSE SubSeq(str, 1, 1))
       \o toUpperCase(SubSeq(str, 2, Len(str)))

validMethods == <<"GET", "POST", "PUT", "PATCH", "DELETE", "HEAD">>

\* HttpPlugin.validate, lines 215-231: new URL(url) and the test of its
\* protocol; the catch block replaces whatever is thrown in the try block
HttpValidateUrl(u) ==
  IF ~u.ok \/ ~startsWith(u.protocol, "http")
  THEN PluginConfigurationError("http", "url", "must be a valid URL")
  ELSE NoError

\* HttpPlugin.validate, lines 233-256: the headers
HttpValidateHeaders(cfg) ==
  IF "headers" \notin DOMAIN cfg THEN NoError
  ELSE IF cfg.headers.type # "object"
  THEN PluginConfigurationError("http", "headers", "must be an object")
  ELSE IF \E i \in 1..Len(cfg.headers.v) : cfg.headers.v[i].value.type # "string"
  THEN PluginConfigurationError(
         "http",
         "headers." \o cfg.headers.v[CHOOSE i \in 1..Len(cfg.headers.v) :
                          /\ cfg.headers.v[i].value.type # "string"
                          /\ \A j \in 1..(i - 1) : cfg.headers.v[j].value.type = "string"].key,
         "must be a string")
  ELSE NoError

\* HttpPlugin.validate, lines 258-289: timeout, method and body
HttpValidateOptions(cfg) ==
  IF /\ "timeout" \in DOMAIN cfg
     /\ (cfg.timeout.type # "number" \/ cfg.timeout.v < 1000 \/ cfg.timeout.v > 300000)
  THEN PluginConfigurationError("http", "timeout",
                                "must be a number between 1000 and 300000")
  ELSE IF /\ "method" \in DOMAIN cfg
          /\ (cfg.method.type # "string"
              \/ \A i \in 1..Len(validMethods) : validMethods[i] # toUpperCase(cfg.method.v))
  THEN PluginConfigurationError("http", "method",
                                "must be one of: " \o "GET, POST, PUT, PATCH, DELETE, HEAD")
  ELSE IF "body" \in DOMAIN cfg /\ cfg.body.type # "string"
  THEN PluginConfigurationError("http", "body", "must be a string")
  ELSE NoError

\* HttpPlugin.validate
HttpValidate(cfg) ==
  IF ~IsObject(cfg) THEN PluginConfigurationError("http", "config", "must be an object")
  ELSE IF "url" \notin DOMAIN cfg \/ cfg.url = ""
  THEN PluginConfigurationError("http", "url", "must be a non-empty string")
  ELSE IF HttpValidateUrl(NewURL(cfg.url)).kind # "none"
  THEN HttpValidateUrl(NewURL(cfg.url))
  ELSE IF HttpValidateHeaders(cfg).kind # "none" THEN HttpValidateHeaders(cfg)
  ELSE HttpValidateOptions(cfg)

\* HttpPlugin.fetch, lines 318-364: the response has arrived; a non-2xx
\* response raises a ResourceError inside, which the plugin's own catch block
\* turns into a PluginError
HttpFetchResponse(cfg, response) ==
  IF response.status # 200
  THEN PluginThrows(PluginError(
         ResourceError("HTTP " \o StatusStr(response.status) \o " " \o response.text
                       \o ": Failed to fetch " \o cfg.url, cfg.url).msg, "http"))
  ELSE PluginOk(Undefined, Some(FALSE), Some(response.body), Some([symlink |-> FALSE]))

\* (httpConfig.method || "GET").toUpperCase()
HttpMethod(cfg) == IF "method" \in DOMAIN cfg THEN toUpperCase(cfg.method.v) ELSE "GET"

\* an HttpPlugin.fetch that validates no more than the url before it sends
\* the request
HttpFetchUnchecked(cfg) ==
  IF ~IsObject(cfg) \/ "url" \notin DOMAIN cfg THEN PluginThrows(HttpValidate(cfg))
  ELSE IF cfg.url = "" \/ HttpValidateUrl(NewURL(cfg.url)).kind # "none"
  THEN PluginThrows(HttpValidate(cfg))
  ELSE Did(HttpFetchResponse(cfg, HttpResponse(cfg.url)),
           <<RequestCall(cfg.url, "GET")>>)

\* HttpPlugin.fetch(config, context)
HttpFetch(cfg) ==
  IF HttpValidate(cfg).kind # "none" THEN PluginThrows(HttpValidate(cfg))
  ELSE Did(HttpFetchResponse(cfg, HttpResponse(cfg.url)),
           <<RequestCall(cfg.url, HttpMethod(cfg))>>)

\* a plugin loaded from the configuration's "plugins": what it does is its own
\* business; pluginConfig.mode selects among the things a fetch can do
CustomFetch(f, cfg) ==
  IF cfg.mode = "content" THEN PluginOk(Undefined, Undefined, Some("M"), Undefined)
  ELSE IF cfg.mode = "path"
       THEN PluginOk(Some(<<"a.md">>), Undefined, Undefined, Some([symlink |-> TRUE]))
  ELSE IF cfg.mode = "nothing" THEN PluginOk(Undefined, Undefined, Undefined, Undefined)
  ELSE IF cfg.mode = "both"
       THEN PluginOk(Some(<<"dir">>), Some(TRUE), Some("M"), Undefined)
  ELSE IF cfg.mode = "throwResourceError"
       THEN PluginThrows(ResourceError("quota exceeded", "custom://item"))
  ELSE IF cfg.mode = "throwError" THEN PluginThrows(PlainError("boom"))
  ELSE PluginThrows(ThrownValue("oops"))

\* plugin.fetch of the registered implementation
PluginFetch(impl, f, cfg) ==
  IF impl = "LocalPlugin" THEN LocalFetch(f, cfg)
  ELSE IF impl = "HttpPlugin" THEN HttpFetch(cfg)
  ELSE CustomFetch(f, cfg)

\* plugin.validate of the registered implementation (the custom one has none)
PluginValidate(impl, cfg) ==
  IF impl = "LocalPlugin" THEN LocalValidate(cfg)
  ELSE IF impl = "HttpPlugin" THEN HttpValidate(cfg)
  ELSE NoError

\* a plugin object: its name, and the implementation behind it
Plugin(name, impl) == [name |-> name, impl |-> impl]

\* The registry is a Map from names to plugins: a sequence of entries without
\* repeated keys, in insertion order.
\* Map.prototype.has
MapHas(m, key) == \E i \in 1..Len(m) : m[i].key = key

\* Map.prototype.get: the value under the key, Undefined when there is none
MapGet(m, key) ==
  IF MapHas(m, key) THEN Some(m[CHOOSE i \in 1..Len(m) : m[i].key = key].value)
  ELSE Undefined

\* a Map.prototype.set that leaves a key that is there as it is
MapSetOnce(m, key, value) ==
  IF MapHas(m, key) THEN m ELSE Append(m, [key |-> key, value |-> value])

\* Map.prototype.set: a key that is there keeps its place and gets the value
MapSet(m, key, value) ==
  IF MapHas(m, key)
  THEN [i \in 1..Len(m) |-> IF m[i].key = key THEN [key |-> key, value |-> value] ELSE m[i]]
  ELSE Append(m, [key |-> key, value |-> value])

\* a Map.prototype.delete that reports the removal whether or not the key was
\* there
MapDeleteAlways(m, key) ==
  [deleted |-> TRUE, map |-> SelectSeq(m, LAMBDA e : e.key # key)]

\* Map.prototype.delete: the map without the key, and whether it was there
MapDelete(m, key) ==
  [deleted |-> MapHas(m, key), map |-> SelectSeq(m, LAMBDA e : e.key # key)]

\* the plugins registered when the package is imported
BuiltinPlugins == <<Plugin("local", "LocalPlugin"), Plugin("http", "HttpPlugin")>>

\* PluginRegistry.has
has(reg, name) == MapHas(reg, name)

\* PluginRegistry.register: inserts or overwrites by the plugin's name
register(reg, plugin) == MapSet(reg, plugin.name, plugin)

\* PluginRegistry.resolve, lines 35-39: the plugin has been looked up
ResolveGot(plugin, name) ==
  IF ~plugin.def THEN [ok |-> FALSE, err |-> PluginNotFoundError(name), plugin |-> Undefined]
  ELSE [ok |-> TRUE, err |-> NoError, plugin |-> plugin.v]

\* PluginRegistry.resolve(name): the plugin, or a PluginNotFoundError
resolvePlugin(reg, name) == ResolveGot(MapGet(reg, name), name)

\* PluginRegistry.unregister(name): [deleted, map]
unregister(reg, name) == MapDelete(reg, name)

\* PluginRegistry.clear
clear(reg) == <<>>

\* PluginRegistry.size
size(reg) == Len(reg)

\* PluginRegistry.getAll: the values, in insertion order
getAll(reg) == [i \in 1..Len(reg) |-> reg[i].value]

\* the code units of the characters names are made of, in ascending order
CodeUnits == "-./0123456789ABCDEFGHIJKLMNOPQRSTUVWXYZ_abcdefghijklmnopqrstuvwxyz"

\* String.prototype.charCodeAt, as a rank among CodeUnits
charCodeAt(str, i) ==
  CHOOSE k \in 1..Len(CodeUnits) : SubSeq(CodeUnits, k, k) = SubSeq(str, i, i)

RECURSIVE CompareFrom(_, _, _)
\* the default comparison of Array.prototype.sort, on strings: by code units,
\* a proper prefix before the longer string; from position i on
CompareFrom(a, b, i) ==
  IF i > Len(a) THEN i <= Len(b)
  ELSE IF i > Len(b) THEN FALSE
  ELSE IF charCodeAt(a, i) # charCodeAt(b, i) THEN charCodeAt(a, i) < charCodeAt(b, i)
  ELSE CompareFrom(a, b, i + 1)

\* a sorts before b
SortsBefore(a, b) == CompareFrom(a, b, 1)

RECURSIVE InsertSorted(_, _)
\* x put into the sorted sequence at its place
InsertSorted(sorted, x) ==
  IF sorted = <<>> THEN <<x>>
  ELSE IF SortsBefore(x, Head(sorted)) THEN <<x>> \o sorted
  ELSE <<Head(sorted)>> \o InsertSorted(Tail(sorted), x)

RECURSIVE sort(_)
\* Array.prototype.sort() without a comparator
sort(a) == IF a = <<>> THEN <<>> ELSE InsertSorted(sort(SubSeq(a, 1, Len(a) - 1)), a[Len(a)])

\* Array.from(this.plugins.keys())
keys(reg) == [i \in 1..Len(reg) |-> reg[i].key]

\* listAvailable without the sort: the names in insertion order
listAvailableUnsorted(reg) == keys(reg)

\* PluginRegistry.listAvailable: the names, sorted
listAvailable(reg) == sort(keys(reg))

\* the registry once the package is imported: register(plugin) for each of
\* the built-in plugins
BuiltinRegistry == register(register(<<>>, BuiltinPlugins[1]), BuiltinPlugins[2])

\* --------------------------------------------------- fetch orchestrator
FetchedThrows(e, called, ops) ==
  [ok |-> FALSE, err |-> e, called |-> called, io |-> ops, value |-> Undefined]

\* a fetchSingleResource that leaves localPath out of what it returns
FetchedOkNoPath(definition, r) ==
  [ok |-> TRUE, err |-> NoError, called |-> TRUE, io |-> r.io,
   value |-> [definition |-> definition,
              localPath |-> Undefined,
              isDirectory |-> IF r.isDirectory.def THEN r.isDirectory.v ELSE FALSE,
              content |-> r.content,
              pluginMetadata |-> r.metadata]]

\* fetchSingleResource, lines 114-120: the FetchedResource made of what the
\* plugin returned
FetchedOk(definition, r) ==
  [ok |-> TRUE, err |-> NoError, called |-> TRUE, io |-> r.io,
   value |-> [definition |-> definition,
              localPath |-> r.localPath,
              isDirectory |-> IF r.isDirectory.def THEN r.isDirectory.v ELSE FALSE,
              content |-> r.content,
              pluginMetadata |-> r.metadata]]

\* fetchSingleResource wrapping whatever the plugin throws, a ResourceError
\* included
FetchSingleCatchWrapAll(definition, r) ==
  IF r.ok THEN FetchedOk(definition, r)
  ELSE FetchedThrows(
         ResourceError("Failed to fetch with plugin \"" \o definition.plugin \o "\": "
                       \o formatError(r.err), definition.plugin), TRUE, r.io)

\* fetchSingleResource, lines 111-130: plugin.fetch has returned or thrown
FetchSingleCatch(definition, r) ==
  IF r.ok THEN FetchedOk(definition, r)
  ELSE IF r.err.kind = "ResourceError" THEN FetchedThrows(r.err, TRUE, r.io)
  ELSE FetchedThrows(
         ResourceError("Failed to fetch with plugin \"" \o definition.plugin \o "\": "
                       \o formatError(r.err), definition.plugin), TRUE, r.io)

\* fetchSingleResource, lines 104-130: pluginRegistry.resolve has returned or
\* thrown
FetchSingleResolved(f, definition, p) ==
  IF ~p.ok THEN FetchedThrows(p.err, FALSE, <<>>)
  ELSE FetchSingleCatch(definition, PluginFetch(p.plugin.impl, f, definition.pluginConfig))

\* fetchSingleResource(definition, projectRoot, logger)
fetchSingleResource(reg, f, definition) ==
  FetchSingleResolved(f, definition, resolvePlugin(reg, definition.plugin))

\* fetchResources, lines 87-93: the catch block around fetchSingleResource
FetchCatch(r) ==
  IF r.ok \/ r.err.kind = "ResourceError" THEN r
  ELSE FetchedThrows(
         ResourceError("Failed to fetch resource: " \o formatError(r.err), ""), r.called,
         r.io)

\* the body of the for loop of fetchResources: the fetched resource, or the
\* error the call ends with
FetchStep(reg, f, definition) == FetchCatch(fetchSingleResource(reg, f, definition))

\* ------------------------------------------------------- configuration
\* new ConfigurationError(message, configPath)
ConfigurationError(msg) == [kind |-> "ConfigurationError", msg |-> msg, path |-> ""]

\* new ValidationError(message, field)
ValidationError(msg, field) == [kind |-> "ValidationError", msg |-> msg, path |-> field]

IndexStr(i) == ToString(i - 1)

\* an exported value: a class (or any function), an object, or something
\* else; for a class, what `new` gives: an exception, or an instance with or
\* without a name and a fetch method
ExportedClass(name, hasFetch, impl) ==
  [kind |-> "function", throws |-> FALSE, name |-> name, hasFetch |-> hasFetch, impl |-> impl]

ExportedFunction ==
  [kind |-> "function", throws |-> TRUE, name |-> "", hasFetch |-> FALSE, impl |-> ""]

ExportedObject(name, hasFetch, impl) ==
  [kind |-> "object", throws |-> FALSE, name |-> name, hasFetch |-> hasFetch, impl |-> impl]

ExportedValue ==
  [kind |-> "other", throws |-> FALSE, name |-> "", hasFetch |-> FALSE, impl |-> ""]

\* a module that can be imported: its exports, as Object.keys lists the
\* module namespace (by name, in code unit order)
Module(exports) == [ok |-> TRUE, err |-> "", exports |-> exports]

\* a module whose import fails
NoModule(message) == [ok |-> FALSE, err |-> message, exports |-> <<>>]

Export(name, value) == [name |-> name, value |-> value]

\* the modules the configuration's "plugins" paths lead to
PluginModule(path) ==
  IF path = "./custom-plugin.js"
  THEN Module(<<Export("default", ExportedClass("custom", TRUE, "CustomPlugin"))>>)
  ELSE IF path = "./mock-instance.js"
  THEN Module(<<Export("default", ExportedObject("mock", TRUE, "MockPlugin 2.0.0"))>>)
  ELSE IF path = "./named.js"
  THEN Module(<<Export("VERSION", ExportedValue),
                Export("helper", ExportedFunction),
                Export("plugin", ExportedObject("http", TRUE, "NamedPlugin"))>>)
  ELSE IF path = "./invalid.js"
  THEN Module(<<Export("default", ExportedValue),
                Export("notAPlugin", ExportedObject("invalid", FALSE, "NotAPlugin")),
                Export("someFunction", ExportedClass("", FALSE, "SomeFunction"))>>)
  ELSE IF path = "./shadowed.js"
  THEN Module(<<Export("Real", ExportedClass("real", TRUE, "RealPlugin")),
                Export("default", ExportedClass("shadow", FALSE, "ShadowPlugin"))>>)
  ELSE IF path = "./broken.js" THEN NoModule("Unexpected token")
  ELSE NoModule("Cannot find module '" \o path \o "'")

\* instance.name && typeof instance.fetch === "function"
PluginShaped(value) == value.name # "" /\ value.hasFetch

\* the plugin an exported value gives, if it gives one: the instance of a
\* class whose constructor does not throw, or the object itself
AsPlugin(value) ==
  IF value.kind = "function" /\ ~value.throws /\ PluginShaped(value)
  THEN Some(Plugin(value.name, value.impl))
  ELSE IF value.kind = "object" /\ PluginShaped(value)
  THEN Some(Plugin(value.name, value.impl))
  ELSE Undefined

RECURSIVE FirstPlugin(_)
\* loadPlugin, lines 110-129: the first export that gives a plugin
FirstPlugin(exports) ==
  IF exports = <<>> THEN Undefined
  ELSE IF AsPlugin(Head(exports).value).def THEN AsPlugin(Head(exports).value)
  ELSE FirstPlugin(Tail(exports))

\* pluginModule.default, when the module has one
DefaultExport(m) ==
  IF \E i \in 1..Len(m.exports) : m.exports[i].name = "default"
  THEN (m.exports[CHOOSE i \in 1..Len(m.exports) : m.exports[i].name = "default"]).value
  ELSE ExportedValue

\* loadPlugin, lines 92-130: a default export that is a function decides
\* alone; a default export that is a plugin object is taken; otherwise every
\* export is tried
FindPlugin(m) ==
  IF DefaultExport(m).kind = "function" THEN AsPlugin(DefaultExport(m))
  ELSE IF DefaultExport(m).kind = "object" /\ PluginShaped(DefaultExport(m))
  THEN AsPlugin(DefaultExport(m))
  ELSE FirstPlugin(m.exports)

LoadResult(ok, e, reg, imported) ==
  [ok |-> ok, err |-> e, registry |-> reg, imported |-> imported]

\* loadPlugin, lines 139-145: the catch block
LoadPluginCatch(reg, pluginPath, e) ==
  LoadResult(FALSE,
             PlainError("Failed to load plugin from " \o pluginPath \o ": " \o formatError(e)),
             reg, <<pluginPath>>)

\* loadPlugin, lines 132-138: the exports have been searched
LoadPluginFound(reg, pluginPath, pluginInstance) ==
  IF ~pluginInstance.def
  THEN LoadPluginCatch(reg, pluginPath, PlainError(
         "No valid plugin found in " \o pluginPath \o ". Plugin must export a class "
         \o "or instance implementing the Plugin interface."))
  ELSE LoadResult(TRUE, NoError, register(reg, pluginInstance.v), <<pluginPath>>)

\* the exports that carry a name
NamedExports(m) == SelectSeq(m.exports, LAMBDA e : e.value.name # "")

\* a loadPlugin that registers the first export carrying a name before it
\* checks the export for the plugin shape
LoadPluginImportedEager(reg, pluginPath, m) ==
  IF ~m.ok THEN LoadPluginCatch(reg, pluginPath, PlainError(m.err))
  ELSE LoadPluginFound(IF NamedExports(m) = <<>> THEN reg
                       ELSE register(reg, Plugin(Head(NamedExports(m)).value.name,
                                                 Head(NamedExports(m)).value.impl)),
                       pluginPath, FindPlugin(m))

\* loadPlugin, lines 90-138: the import has resolved or rejected
LoadPluginImported(reg, pluginPath, m) ==
  IF ~m.ok THEN LoadPluginCatch(reg, pluginPath, PlainError(m.err))
  ELSE LoadPluginFound(reg, pluginPath, FindPlugin(m))

\* PluginRegistry.loadPlugin(pluginPath, projectRoot)
loadPlugin(reg, pluginPath) == LoadPluginImported(reg, pluginPath, PluginModule(pluginPath))

RECURSIVE loadPlugins(_, _, _)
\* a loadPlugins that goes on with the remaining paths after a failure and
\* reports the failure at the end
LoadPluginsNextAll(l, rest, imported) ==
  IF ~l.ok
  THEN [loadPlugins(l.registry, rest, imported \o l.imported)
          EXCEPT !.ok = FALSE, !.err = l.err]
  ELSE loadPlugins(l.registry, rest, imported \o l.imported)

\* loadPlugins, lines 152-154: one path has been loaded or has failed
LoadPluginsNext(l, rest, imported) ==
  IF ~l.ok THEN LoadResult(FALSE, l.err, l.registry, imported \o l.imported)
  ELSE loadPlugins(l.registry, rest, imported \o l.imported)

\* PluginRegistry.loadPlugins(pluginPaths, projectRoot): one path after
\* another; `imported` lists the paths imported so far
loadPlugins(reg, pluginPaths, imported) ==
  IF pluginPaths = <<>> THEN LoadResult(TRUE, NoError, reg, imported)
  ELSE LoadPluginsNext(loadPlugin(reg, Head(pluginPaths)), Tail(pluginPaths), imported)

\* validateOverwrite: true when omitted
validateOverwrite(overwrite) == IF overwrite.def THEN overwrite.v ELSE TRUE

BadResource(e) == [ok |-> FALSE, err |-> e, value |-> Undefined]

\* validateResource, lines 265-284: plugin.validate has returned or thrown
ValidatePlugin(resource, resourcePath, v) ==
  IF v.kind # "none"
  THEN BadResource(ValidationError("Plugin validation failed: " \o v.msg,
                                   resourcePath \o ".pluginConfig"))
  ELSE [ok |-> TRUE, err |-> NoError,
        value |-> [plugin |-> resource.plugin,
                   pluginConfig |-> resource.pluginConfig,
                   overwrite |-> validateOverwrite(resource.overwrite),
                   outputs |-> resource.outputs]]

RECURSIVE Joined(_, _)
\* Array.prototype.join
Joined(a, sep) ==
  IF a = <<>> THEN ""
  ELSE IF Len(a) = 1 THEN Head(a)
  ELSE Head(a) \o sep \o Joined(Tail(a), sep)

\* validateResource(resource, resourcePath)
validateResource(reg, resource, resourcePath) ==
  IF resource.plugin = ""
  THEN BadResource(ValidationError(
         "Resource must have a \"plugin\" field with a non-empty string",
         resourcePath \o ".plugin"))
  ELSE IF ~has(reg, resource.plugin)
  THEN BadResource(ValidationError(
         "Unknown plugin \"" \o resource.plugin \o "\". Available plugins: "
         \o Joined(listAvailable(reg), ", "), resourcePath \o ".plugin"))
  ELSE IF resource.outputs = <<>>
  THEN BadResource(ValidationError("outputs array cannot be empty",
                                   resourcePath \o ".outputs"))
  ELSE IF \E i \in 1..Len(resource.outputs) : resource.outputs[i] = ""
  THEN BadResource(ValidationError("Each output must be a non-empty string",
                                   resourcePath \o ".outputs"))
  ELSE ValidatePlugin(resource, resourcePath,
                      PluginValidate(resolvePlugin(reg, resource.plugin).plugin.impl,
                                     resource.pluginConfig))

RECURSIVE ValidateAll(_, _, _, _)
\* the validation loop leaving out the resources it rejects, and going on
ValidateOneLenient(reg, raw, i, acc, v) ==
  IF ~v.ok THEN ValidateAll(reg, raw, i + 1, acc)
  ELSE ValidateAll(reg, raw, i + 1, Append(acc, v.value))

\* loadConfig, lines 125-138: one resource has been validated
ValidateOne(reg, raw, i, acc, v) ==
  IF ~v.ok THEN [ok |-> FALSE, err |-> v.err, registry |-> reg, resources |-> <<>>]
  ELSE ValidateAll(reg, raw, i + 1, Append(acc, v.value))

\* the validation loop of loadConfig
ValidateAll(reg, raw, i, acc) ==
  IF i > Len(raw) THEN [ok |-> TRUE, err |-> NoError, registry |-> reg, resources |-> acc]
  ELSE ValidateOne(reg, raw, i, acc,
                   validateResource(reg, raw[i], "resources[" \o IndexStr(i) \o "]"))

BadConfig(e, reg) == [ok |-> FALSE, err |-> e, registry |-> reg, resources |-> <<>>]

\* loadConfig, lines 98-141: the plugins have been loaded
LoadConfigPlugins(cfg, l) ==
  IF ~l.ok
  THEN BadConfig(ConfigurationError("Failed to load plugins: " \o l.err.msg), l.registry)
  ELSE ValidateAll(l.registry, cfg.resources, 1, <<>>)

\* loadConfig(configPath, projectRoot)
loadConfig(reg, cfg) ==
  IF ~cfg.found THEN BadConfig(ConfigurationError(
         "No knowhub configuration found. Run \"npx knowhub init\" to create a "
         \o "configuration file, or ensure you have a .knowhubrc.* file or "
         \o "\"knowhub\" field in package.json."), reg)
  ELSE IF cfg.resources = <<>>
  THEN BadConfig(ConfigurationError("Configuration must have at least one resource"), reg)
  ELSE LoadConfigPlugins(cfg, loadPlugins(reg, cfg.plugins, <<>>))

\* ------------------------------------------------------ placement engine
\* ASCII stand-ins for the check mark, the ballot cross and the warning sign
CheckMark == "v"
CrossMark == "x"
WarnMark == "!"

B2N(b) == IF b THEN 1 ELSE 0

Placed(r, created, updated, via) ==
  [ok |-> r.ok, err |-> r.err, fs |-> r.fs, created |-> created, updated |-> updated,
   via |-> via,
   usedSymlink |-> IF via = "symlinkOrCopy" THEN r.usedSymlink ELSE FALSE,
   warned |-> IF via = "symlinkOrCopy" THEN r.warned ELSE ""]

\* { created: result.created ? 1 : 0, updated: result.updated ? 1 : 0 }
PlacedOne(r, via) == Placed(r, B2N(r.created), B2N(r.updated), via)

\* { created: result.created, updated: 0 }
PlacedTree(r) == Placed(r, r.created, 0, "copyDirectory")

\* pluginMetadata?.symlink === true, whatever the plugin
WantSymlinkAnyPlugin(fetchedResource) ==
  /\ fetchedResource.pluginMetadata.def
  /\ fetchedResource.pluginMetadata.v.symlink = TRUE

\* definition.plugin === "local" && pluginMetadata?.symlink === true
WantSymlink(fetchedResource) ==
  /\ fetchedResource.definition.plugin = "local"
  /\ fetchedResource.pluginMetadata.def
  /\ fetchedResource.pluginMetadata.v.symlink = TRUE

\* placeResourceAtOutput(fetchedResource, outputPath)
placeResourceAtOutput(f, fetchedResource, outputPath, symlinkOk) ==
  IF fetchedResource.content.def
  THEN PlacedOne(writeTextFile(f, outputPath, fetchedResource.content.v,
                               fetchedResource.definition.overwrite), "writeTextFile")
  ELSE IF ~fetchedResource.localPath.def
  THEN [ok |-> FALSE, err |-> PlainError("Local path is undefined for local resource"),
        fs |-> f, created |-> 0, updated |-> 0, via |-> "none",
        usedSymlink |-> FALSE, warned |-> ""]
  ELSE IF WantSymlink(fetchedResource)
  THEN PlacedOne(symlinkOrCopy(f, fetchedResource.localPath.v, outputPath,
                               fetchedResource.definition.overwrite,
                               fetchedResource.isDirectory, symlinkOk), "symlinkOrCopy")
  ELSE IF fetchedResource.isDirectory
  THEN PlacedTree(copyDirectory(f, fetchedResource.localPath.v, outputPath,
                                fetchedResource.definition.overwrite))
  ELSE PlacedOne(copyFile(f, fetchedResource.localPath.v, outputPath,
                          fetchedResource.definition.overwrite), "copyFile")

LogEntry(level, message) == [level |-> level, message |-> message]

\* what one pass of the loop of processFetchedResource adds
Pass(f, created, updated, skipped, errors, log, console0, outcome, via, usedSymlink) ==
  [fs |-> f, created |-> created, updated |-> updated, skipped |-> skipped,
   errors |-> errors, logs |-> log, console |-> console0, outcome |-> outcome,
   via |-> via, usedSymlink |-> usedSymlink]

Warned(r) == IF r.warned = "" THEN <<>> ELSE <<r.warned>>

FullError(outputPath, e) ==
  "Failed to process output \"" \o outputPath \o "\": " \o formatError(e)

\* a processFetchedResource that counts nothing for an output that was
\* neither created nor updated
ClassifySilent(r, overwrite, outputPath) ==
  IF ~r.ok
  THEN Pass(r.fs, 0, 0, 0, <<FullError(outputPath, r.err)>>,
            <<LogEntry("error", CrossMark \o " " \o FullError(outputPath, r.err))>>,
            Warned(r), "failed", r.via, r.usedSymlink)
  ELSE IF r.created > 0
  THEN Pass(r.fs, r.created, r.updated, 0, <<>>,
            <<LogEntry("success", CheckMark \o " Created: " \o outputPath)>>,
            Warned(r), "created", r.via, r.usedSymlink)
  ELSE IF r.updated > 0
  THEN Pass(r.fs, r.created, r.updated, 0, <<>>,
            <<LogEntry("success", CheckMark \o " Updated: " \o outputPath)>>,
            Warned(r), "updated", r.via, r.usedSymlink)
  ELSE Pass(r.fs, r.created, r.updated, 0, <<>>,
            <<LogEntry("skip",
                IF ~overwrite
                THEN "- Skipped: " \o outputPath \o " (already exists, overwrite: false)"
                ELSE "- Skipped: " \o outputPath \o " (content identical)")>>,
            Warned(r), "skipped", r.via, r.usedSymlink)

\* processFetchedResource, lines 176-198: placeResourceAtOutput has returned
\* or thrown
Classify(r, overwrite, outputPath) ==
  IF ~r.ok
  THEN Pass(r.fs, 0, 0, 0, <<FullError(outputPath, r.err)>>,
            <<LogEntry("error", CrossMark \o " " \o FullError(outputPath, r.err))>>,
            Warned(r), "failed", r.via, r.usedSymlink)
  ELSE IF r.created > 0
  THEN Pass(r.fs, r.created, r.updated, 0, <<>>,
            <<LogEntry("success", CheckMark \o " Created: " \o outputPath)>>,
            Warned(r), "created", r.via, r.usedSymlink)
  ELSE IF r.updated > 0
  THEN Pass(r.fs, r.created, r.updated, 0, <<>>,
            <<LogEntry("success", CheckMark \o " Updated: " \o outputPath)>>,
            Warned(r), "updated", r.via, r.usedSymlink)
  ELSE Pass(r.fs, r.created, r.updated, 1, <<>>,
            <<LogEntry("skip",
                IF ~overwrite
                THEN "- Skipped: " \o outputPath \o " (already exists, overwrite: false)"
                ELSE "- Skipped: " \o outputPath \o " (content identical)")>>,
            Warned(r), "skipped", r.via, r.usedSymlink)

\* processFetchedResource taking no notice of dryRun
ProcessOutputForReal(f, fetchedResource, outputPath, dryRun, symlinkOk) ==
  Classify(placeResourceAtOutput(f, fetchedResource, resolve(outputPath), symlinkOk),
           fetchedResource.definition.overwrite, outputPath)

\* one pass of the for loop of processFetchedResource: what it adds to the
\* counts, the errors, the log, the console and the filesystem
ProcessOutput(f, fetchedResource, outputPath, dryRun, symlinkOk) ==
  IF dryRun
  THEN Pass(f, 0, 0, 0, <<>>,
            <<LogEntry("info", "[DRY RUN] Would process: " \o outputPath)>>,
            <<>>, "dryrun", "none", FALSE)
  ELSE Classify(placeResourceAtOutput(f, fetchedResource, resolve(outputPath), symlinkOk),
                fetchedResource.definition.overwrite, outputPath)

\* new ConsoleLogger(quiet): what its five methods write to the console for
\* the messages the logger received; nothing when quiet
ConsoleLogger(quiet, entries) ==
  IF quiet THEN <<>> ELSE [i \in 1..Len(entries) |-> entries[i].message]

\* "=".repeat(50)
Rule == "=================================================="

\* the bullet of the error list (an ASCII stand-in)
Bullet == "*"

\* printSummary: the messages it sends to the logger
printSummary(res, dryRun) ==
  << LogEntry("info", "\n" \o Rule),
     LogEntry("info", IF dryRun THEN "DRY RUN SUMMARY" ELSE "SYNC SUMMARY"),
     LogEntry("info", Rule),
     LogEntry("info", "Total outputs processed: "
                      \o ToString(res.created + res.updated + res.skipped)),
     LogEntry("info", "Created: " \o ToString(res.created)),
     LogEntry("info", "Updated: " \o ToString(res.updated)),
     LogEntry("info", "Skipped: " \o ToString(res.skipped)) >>
  \o (IF Len(res.errors) > 0
      THEN << LogEntry("info", "Errors: " \o ToString(Len(res.errors))),
              LogEntry("info", "\nErrors encountered:") >>
           \o [i \in 1..Len(res.errors) |->
                 LogEntry("info", "  " \o Bullet \o " " \o res.errors[i])]
      ELSE <<>>)
  \o << LogEntry("info", Rule),
        IF Len(res.errors) = 0
        THEN LogEntry("success", IF dryRun
                                 THEN CheckMark \o " Dry run completed successfully"
                                 ELSE CheckMark \o " Sync completed successfully")
        ELSE LogEntry("warn", WarnMark \o " Sync completed with errors") >>

\* ------------------------------------------------------------ the world
\* the sources of the project: a file, a directory with a nested file, and a
\* directory without entries
SourceFs ==
  LET paths == {<<"a.md">>, <<"dir">>, <<"dir", "f">>, <<"dir", "sub">>,
                <<"dir", "sub", "g">>, <<"empty">>}
  IN  [p \in paths |->
         IF p = <<"a.md">> THEN File("X")
         ELSE IF p = <<"dir", "f">> THEN File("X")
         ELSE IF p = <<"dir", "sub", "g">> THEN File("G")
         ELSE Dir]

\* what may be at a destination before the first run
DestStates == {"absent", "same", "other", "dir", "stale", "dangling"}

\* the entries a destination in state st adds to the filesystem
DestEntries(d, st) ==
  IF st = "same" THEN {<<d, File("X")>>}
  ELSE IF st = "other" THEN {<<d, File("Y")>>}
  ELSE IF st = "dir" THEN {<<d, Dir>>}
  ELSE IF st = "stale" THEN {<<d, Dir>>, <<Append(d, "f"), File("Y")>>}
  ELSE IF st = "dangling" THEN {<<d, Link(relative(dirname(d), <<"old.md">>))>>}
  ELSE {}

\* what may be at the directory "nest" before the first run
NestStates == {"absent", "file", "dir"}

NestEntries(st) ==
  IF st = "file" THEN {<<<<"nest">>, File("N")>>}
  ELSE IF st = "dir" THEN {<<<<"nest">>, Dir>>}
  ELSE {}

\* the filesystem made of the sources and the given entries
MakeFs(entries) ==
  LET paths == DOMAIN SourceFs \cup {e[1] : e \in entries}
  IN  [p \in paths |-> IF p \in DOMAIN SourceFs THEN SourceFs[p]
                       ELSE (CHOOSE e \in entries : e[1] = p)[2]]

\* the filesystems a project starts from
InitialFs(outStates, nestStates, nestedStates) ==
  { MakeFs(DestEntries(<<"out">>, o) \cup NestEntries(n)
           \cup (IF n = "dir" THEN DestEntries(<<"nest", "out">>, m) ELSE {})) :
      o \in outStates, n \in nestStates, m \in nestedStates }

\* the non-empty sequences over S of length at most n
SeqsUpTo(S, n) == UNION { [1..k -> S] : k \in 1..n }

\* the output paths a resource may declare
OutputPaths == {"out", "nest/out", "b"}

\* the output lists a resource may declare
OutputLists == { o \in SeqsUpTo(OutputPaths, MaxOutputs) : Len(o) = 1 \/ o[1] # o[2] }

LocalResource(path, link, overwrite, outputs) ==
  [plugin |-> "local", pluginConfig |-> [path |-> path, symlink |-> link],
   overwrite |-> overwrite, outputs |-> outputs]

HttpResource(url, overwrite, outputs) ==
  [plugin |-> "http", pluginConfig |-> [url |-> url],
   overwrite |-> overwrite, outputs |-> outputs]

CustomResource(mode, overwrite, outputs) ==
  [plugin |-> "custom", pluginConfig |-> [mode |-> mode],
   overwrite |-> overwrite, outputs |-> outputs]

\* the resources built from the given ingredients
ResourcesOf(localPaths, symlinks, urls, modes, overwrites, outputs) ==
  { LocalResource(p, s, o, out) :
      p \in localPaths, s \in symlinks, o \in overwrites, out \in outputs }
  \cup { HttpResource(u, o, out) : u \in urls, o \in overwrites, out \in outputs }
  \cup { CustomResource(m, o, out) : m \in modes, o \in overwrites, out \in outputs }

EmptyResult == [created |-> 0, updated |-> 0, skipped |-> 0, errors |-> <<>>]

NoPrev == [valid |-> FALSE, result |-> EmptyResult, fs |-> SourceFs, steps |-> <<>>,
           logs |-> <<>>]

\* the state a fresh process starts in
Fresh ==
  /\ pc = "start"
  /\ run = 1
  /\ idx = [res |-> 1, out |-> 1]
  /\ fetched = <<>>
  /\ fetchCalls = <<>>
  /\ io = <<>>
  /\ result = EmptyResult
  /\ logs = <<>>
  /\ console = <<>>
  /\ thrown = NoError
  /\ returned = Undefined
  /\ steps = <<>>
  /\ exitCode = -1
  /\ prev = NoPrev

\* -------------------------------------------------------------- actions
\* the catch block of runSync: log, record, return what was counted so far
RunSyncCatch(e) ==
  /\ logs' = Append(logs, LogEntry("error", "Error: " \o formatError(e)))
  /\ result' = [result EXCEPT !.errors = Append(@, formatError(e))]
  /\ pc' = "exit"

\* cli(): parse the arguments and dispatch on the command; "sync" stands for
\* the command line without a command, which is the one that runs runSync
Cli ==
  /\ pc = "start"
  /\ env.entry = "cli"
  /\ IF env.command = "help"
     THEN /\ console' = Append(console, "Usage: knowhub [command] [options]")
          /\ exitCode' = 0
          /\ pc' = "done"
     ELSE IF env.command = "sync"
     THEN /\ pc' = "load"
          /\ UNCHANGED <<console, exitCode>>
     ELSE IF env.command = "init"
     THEN /\ pc' = "init"
          /\ UNCHANGED <<console, exitCode>>
     ELSE /\ console' = console \o <<"Unknown command: " \o env.command,
                                     "Usage: knowhub [command] [options]">>
          /\ exitCode' = 1
          /\ pc' = "done"
  /\ UNCHANGED <<fs, config, env, registry, run, idx, resources, fetched, fetchCalls, io,
                 result, logs, thrown, returned, steps, prev>>

\* runSync, lines 119-147: loadConfig has returned or thrown
LoadConfigDone(l) ==
  /\ registry' = l.registry
  /\ IF l.ok
     THEN /\ resources' = l.resources
          /\ pc' = "fetch"
          /\ UNCHANGED <<logs, result>>
     ELSE /\ RunSyncCatch(l.err)
          /\ UNCHANGED resources

\* runSync: loadConfig, and the catch block when it throws
LoadConfig ==
  /\ pc = "load"
  /\ LoadConfigDone(loadConfig(registry, config))
  /\ UNCHANGED <<fs, config, env, run, idx, fetched, fetchCalls, io, console, thrown,
                 returned, steps, exitCode, prev>>

\* a test or a library user calls fetchResources(descriptors) directly
CallFetchResources ==
  /\ pc = "start"
  /\ env.entry = "fetchResources"
  /\ pc' = IF resources = <<>> THEN "done" ELSE "fetch"
  /\ returned' = IF resources = <<>> THEN Some(<<>>) ELSE returned
  /\ UNCHANGED <<fs, config, env, registry, run, idx, resources, fetched, fetchCalls, io,
                 result, logs, console, thrown, steps, exitCode, prev>>

\* fetchResources leaving out the resources that fail, and going on
FetchDoneSkip(r, isLast) ==
  /\ fetchCalls' = IF r.called THEN Append(fetchCalls, idx.res) ELSE fetchCalls
  /\ io' = io \o [i \in 1..Len(r.io) |-> [res |-> idx.res, call |-> r.io[i]]]
  /\ registry' = registry
  /\ fetched' = IF r.ok THEN Append(fetched, r.value) ELSE fetched
  /\ idx' = IF isLast THEN [res |-> 1, out |-> 1] ELSE [idx EXCEPT !.res = @ + 1]
  /\ pc' = IF ~isLast THEN "fetch"
           ELSE IF env.entry # "cli" THEN "done"
           ELSE IF fetched' = <<>> THEN "summary" ELSE "place"
  /\ returned' = IF isLast /\ env.entry # "cli" THEN Some(fetched') ELSE returned
  /\ UNCHANGED <<thrown, logs, result>>

\* a fetchResources that puts the registry back to the built-in plugins
\* after each fetch
FetchDoneReseed(r, isLast) ==
  /\ fetchCalls' = IF r.called THEN Append(fetchCalls, idx.res) ELSE fetchCalls
  /\ io' = io \o [i \in 1..Len(r.io) |-> [res |-> idx.res, call |-> r.io[i]]]
  /\ registry' = BuiltinRegistry
  /\ IF r.ok
     THEN /\ fetched' = Append(fetched, r.value)
          /\ idx' = IF isLast THEN [res |-> 1, out |-> 1] ELSE [idx EXCEPT !.res = @ + 1]
          /\ pc' = IF ~isLast THEN "fetch"
                   ELSE IF env.entry = "cli" THEN "place" ELSE "done"
          /\ returned' = IF isLast /\ env.entry # "cli"
                         THEN Some(Append(fetched, r.value)) ELSE returned
          /\ UNCHANGED <<thrown, logs, result>>
     ELSE IF env.entry = "cli"
     THEN /\ RunSyncCatch(r.err)
          /\ UNCHANGED <<fetched, idx, thrown, returned>>
     ELSE /\ thrown' = r.err
          /\ pc' = "done"
          /\ UNCHANGED <<fetched, idx, logs, result, returned>>

\* fetchResources, lines 79-96: one pass has fetched or failed
FetchDone(r, isLast) ==
  /\ fetchCalls' = IF r.called THEN Append(fetchCalls, idx.res) ELSE fetchCalls
  /\ io' = io \o [i \in 1..Len(r.io) |-> [res |-> idx.res, call |-> r.io[i]]]
  /\ registry' = registry
  /\ IF r.ok
     THEN /\ fetched' = Append(fetched, r.value)
          /\ idx' = IF isLast THEN [res |-> 1, out |-> 1] ELSE [idx EXCEPT !.res = @ + 1]
          /\ pc' = IF ~isLast THEN "fetch"
                   ELSE IF env.entry = "cli" THEN "place" ELSE "done"
          /\ returned' = IF isLast /\ env.entry # "cli"
                         THEN Some(Append(fetched, r.value)) ELSE returned
          /\ UNCHANGED <<thrown, logs, result>>
     ELSE IF env.entry = "cli"
     THEN /\ RunSyncCatch(r.err)
          /\ UNCHANGED <<fetched, idx, thrown, returned>>
     ELSE /\ thrown' = r.err
          /\ pc' = "done"
          /\ UNCHANGED <<fetched, idx, logs, result, returned>>

\* fetchResources: one pass of its for loop; after the last pass it returns,
\* on a failure it throws (into the catch block of runSync, under the cli)
FetchNext ==
  /\ pc = "fetch"
  /\ idx.res <= Len(resources)
  /\ FetchDone(FetchStep(registry, fs, resources[idx.res]), idx.res = Len(resources))
  /\ UNCHANGED <<fs, config, env, run, resources, console, steps, exitCode, prev>>

\* the loops of runSync and processFetchedResource giving up at the first
\* output that fails
PlaceDoneStop(o, definition, outputPath) ==
  /\ fs' = o.fs
  /\ result' = [created |-> result.created + o.created,
                updated |-> result.updated + o.updated,
                skipped |-> result.skipped + o.skipped,
                errors |-> result.errors \o o.errors]
  /\ logs' = logs \o o.logs
  /\ console' = console \o o.console
  /\ steps' = Append(steps, [res |-> idx.res, out |-> idx.out,
                             output |-> outputPath, before |-> fs, after |-> o.fs,
                             overwrite |-> definition.overwrite,
                             outcome |-> o.outcome, via |-> o.via,
                             usedSymlink |-> o.usedSymlink,
                             created |-> o.created, updated |-> o.updated,
                             logs |-> o.logs, console |-> o.console])
  /\ idx' = IF idx.out < Len(definition.outputs) THEN [idx EXCEPT !.out = @ + 1]
            ELSE [res |-> idx.res + 1, out |-> 1]
  /\ pc' = IF o.outcome = "failed"
              \/ (idx.out = Len(definition.outputs) /\ idx.res = Len(fetched))
           THEN "summary" ELSE "place"

\* runSync, lines 126-137, and processFetchedResource: one output is done
PlaceDone(o, definition, outputPath) ==
  /\ fs' = o.fs
  /\ result' = [created |-> result.created + o.created,
                updated |-> result.updated + o.updated,
                skipped |-> result.skipped + o.skipped,
                errors |-> result.errors \o o.errors]
  /\ logs' = logs \o o.logs
  /\ console' = console \o o.console
  /\ steps' = Append(steps, [res |-> idx.res, out |-> idx.out,
                             output |-> outputPath, before |-> fs, after |-> o.fs,
                             overwrite |-> definition.overwrite,
                             outcome |-> o.outcome, via |-> o.via,
                             usedSymlink |-> o.usedSymlink,
                             created |-> o.created, updated |-> o.updated,
                             logs |-> o.logs, console |-> o.console])
  /\ idx' = IF idx.out < Len(definition.outputs) THEN [idx EXCEPT !.out = @ + 1]
            ELSE [res |-> idx.res + 1, out |-> 1]
  /\ pc' = IF idx.out = Len(definition.outputs) /\ idx.res = Len(fetched)
           THEN "summary" ELSE "place"

\* runSync / processFetchedResource: one output of one fetched resource
PlaceNext ==
  /\ pc = "place"
  /\ PlaceDone(ProcessOutput(fs, fetched[idx.res],
                             fetched[idx.res].definition.outputs[idx.out],
                             env.dryRun, env.symlinkOk),
               fetched[idx.res].definition,
               fetched[idx.res].definition.outputs[idx.out])
  /\ UNCHANGED <<config, env, registry, run, resources, fetched, fetchCalls, io, thrown,
                 returned, exitCode, prev>>

\* runSync: printSummary and return
Summary ==
  /\ pc = "summary"
  /\ logs' = logs \o printSummary(result, env.dryRun)
  /\ pc' = "exit"
  /\ UNCHANGED <<fs, config, env, registry, run, idx, resources, fetched, fetchCalls, io,
                 result, console, thrown, returned, steps, exitCode, prev>>

\* cli: runSync has returned its result; cli returns and the process ends
CliExit ==
  /\ pc = "exit"
  /\ exitCode' = 0
  /\ pc' = "done"
  /\ UNCHANGED <<fs, config, env, registry, run, idx, resources, fetched, fetchCalls, io,
                 result, logs, console, thrown, returned, steps, prev>>

\* the user runs the same command again, nothing else having changed
Rerun ==
  /\ pc = "done"
  /\ env.entry = "cli"
  /\ env.command = "sync"
  /\ run < MaxRuns
  /\ prev' = [valid |-> TRUE, result |-> result, fs |-> fs, steps |-> steps, logs |-> logs]
  /\ run' = run + 1
  /\ registry' = BuiltinRegistry
  /\ pc' = "start"
  /\ idx' = [res |-> 1, out |-> 1]
  /\ resources' = <<>>
  /\ fetched' = <<>>
  /\ fetchCalls' = <<>>
  /\ io' = <<>>
  /\ result' = EmptyResult
  /\ logs' = <<>>
  /\ console' = <<>>
  /\ steps' = <<>>
  /\ exitCode' = -1
  /\ UNCHANGED <<fs, config, env, thrown, returned>>

\* ------------------------------------------------------- the init command
CONFIG_FILES ==
  <<".knowhubrc.ts", ".knowhubrc.js", ".knowhubrc.json", ".knowhubrc.yaml",
    ".knowhubrc.yml", ".knowhubrc">>

\* possibleTemplatePaths: where init looks for the template, in the installed
\* package
possibleTemplatePaths ==
  << <<"node_modules", "knowhub", "templates", ".knowhubrc.template.ts">>,
     <<"node_modules", "templates", ".knowhubrc.template.ts">> >>

\* JSON.parse of the package.json contents of the world: [ok, knowhub], knowhub
\* telling whether the "knowhub" field is there and truthy
JSONParse(text) ==
  IF text = "{\"name\":\"app\",\"knowhub\":{\"resources\":[]}}"
  THEN [ok |-> TRUE, knowhub |-> TRUE]
  ELSE IF text = "{\"name\":\"app\",\"knowhub\":null}" THEN [ok |-> TRUE, knowhub |-> FALSE]
  ELSE IF text = "{\"name\":\"app\"}" THEN [ok |-> TRUE, knowhub |-> FALSE]
  ELSE [ok |-> FALSE, knowhub |-> FALSE]

\* the first path of a list that exists, Undefined when none does
FirstExisting(f, paths) ==
  IF \E i \in 1..Len(paths) : pathExists(f, paths[i])
  THEN Some(paths[CHOOSE i \in 1..Len(paths) :
                    /\ pathExists(f, paths[i])
                    /\ \A j \in 1..(i - 1) : ~pathExists(f, paths[j])])
  ELSE Undefined

InitResult(ok, e, f) == [ok |-> ok, err |-> e, fs |-> f]

\* init, lines 32-39: what the try block around the reading of package.json
\* throws
InitPackageTry(r) ==
  IF ~r.ok THEN NodeError(r.err)
  ELSE IF ~JSONParse(r.c).ok THEN PlainError("Unexpected token in JSON")
  ELSE IF JSONParse(r.c).knowhub
  THEN PlainError("Configuration already exists in package.json under \"knowhub\" field")
  ELSE NoError

\* init, lines 40-42: the catch block ignores whatever the try block threw
InitPackageCatch(e) == NoError

\* init, lines 31-43: the check of package.json
InitPackage(f) ==
  IF pathExists(f, <<"package.json">>)
  THEN InitPackageCatch(InitPackageTry(readFile(f, <<"package.json">>)))
  ELSE NoError

\* init, line 67: the template has been written, or the write has failed
InitWritten(w) ==
  IF ~w.ok THEN InitResult(FALSE, NodeError(w.err), w.fs)
  ELSE InitResult(TRUE, NoError, w.fs)

\* init, lines 65-67: the template has been read
InitTemplateRead(f, r) ==
  IF ~r.ok THEN InitResult(FALSE, NodeError(r.err), f)
  ELSE InitWritten(writeFile(f, <<".knowhubrc.ts">>, r.c))

\* init, lines 45-67: the template has been looked for
InitTemplate(f, templatePath) ==
  IF ~templatePath.def
  THEN InitResult(FALSE, PlainError("Could not find configuration template file"), f)
  ELSE InitTemplateRead(f, readFile(f, templatePath.v))

\* init, lines 31-67: package.json has been checked
InitPackageChecked(f, e) ==
  IF e.kind # "none" THEN InitResult(FALSE, e, f)
  ELSE InitTemplate(f, FirstExisting(f, possibleTemplatePaths))

\* init, lines 25-67: the configuration files have been looked for
InitConfigFiles(f, configFile) ==
  IF configFile.def
  THEN InitResult(FALSE,
                  PlainError("Configuration file already exists: " \o PathStr(configFile.v)),
                  f)
  ELSE InitPackageChecked(f, InitPackage(f))

\* the body of the try block of init()
init(f) ==
  InitConfigFiles(f, FirstExisting(f, [i \in 1..Len(CONFIG_FILES) |-> <<CONFIG_FILES[i]>>]))

\* init(): the template is written and two lines are printed, or the catch
\* block prints the failure and the process exits with code 1
InitDone(r) ==
  /\ fs' = r.fs
  /\ steps' = Append(steps, [op |-> "init", before |-> fs, after |-> r.fs, ok |-> r.ok,
                             err |-> r.err])
  /\ IF r.ok
     THEN /\ console' = console \o
                          << CheckMark \o " Configuration template created successfully",
                             "Edit your configuration file and run \"npx knowhub\" to "
                             \o "sync resources" >>
          /\ pc' = "exit"
          /\ UNCHANGED exitCode
     ELSE /\ console' = Append(console, "Failed to create configuration template: "
                                        \o formatError(r.err))
          /\ exitCode' = 1
          /\ pc' = "done"

\* knowhub init
InitCommand ==
  /\ pc = "init"
  /\ InitDone(init(fs))
  /\ UNCHANGED <<config, env, registry, run, idx, resources, fetched, fetchCalls, io,
                 result, logs, thrown, returned, prev>>

\* the record of one call made on the plugin registry
RegistryCall(op, arg, after, ok, ret, err, imported) ==
  [op |-> op, arg |-> arg, before |-> registry, after |-> after, ok |-> ok, ret |-> ret,
   err |-> err, imported |-> imported]

\* a call on the registry: the registry changes, nothing else does
RegistryStep(call) ==
  /\ env.entry = "registry"
  /\ Len(steps) < MaxCalls
  /\ registry' = call.after
  /\ steps' = Append(steps, call)
  /\ UNCHANGED <<fs, env, pc, run, idx, resources, fetched, fetchCalls, io, result, logs,
                 console, thrown, returned, exitCode, prev>>

\* registry.register(plugin)
Register(plugin) ==
  /\ RegistryStep(RegistryCall("register", plugin, register(registry, plugin), TRUE,
                               Undefined, NoError, <<>>))
  /\ UNCHANGED config

\* registry.unregister(name): the delete has been made
UnregisterDone(name, d) ==
  RegistryStep(RegistryCall("unregister", name, d.map, TRUE, Some(d.deleted), NoError, <<>>))

\* registry.unregister(name)
Unregister(name) ==
  /\ UnregisterDone(name, unregister(registry, name))
  /\ UNCHANGED config

\* registry.clear()
Clear ==
  /\ RegistryStep(RegistryCall("clear", "", clear(registry), TRUE, Undefined, NoError, <<>>))
  /\ UNCHANGED config

\* registry.loadPlugin / loadPlugins have returned or thrown
LoadDone(op, arg, l) ==
  RegistryStep(RegistryCall(op, arg, l.registry, l.ok, Undefined, l.err, l.imported))

\* registry.loadPlugin(pluginPath, projectRoot)
LoadPlugin(pluginPath) ==
  /\ LoadDone("loadPlugin", pluginPath, loadPlugin(registry, pluginPath))
  /\ UNCHANGED config

\* registry.loadPlugins(pluginPaths, projectRoot)
LoadPlugins(pluginPaths) ==
  /\ LoadDone("loadPlugins", pluginPaths, loadPlugins(registry, pluginPaths, <<>>))
  /\ UNCHANGED config

\* loadConfig has returned or thrown
CallLoadConfigDone(cfg, l) ==
  RegistryStep(RegistryCall("loadConfig", cfg, l.registry, l.ok, Some(l.resources), l.err,
                            <<>>))

\* loadConfig(configPath, projectRoot) called directly, on the configuration
\* file cfg
CallLoadConfig(cfg) ==
  /\ CallLoadConfigDone(cfg, loadConfig(registry, cfg))
  /\ config' = cfg

Next == Cli \/ LoadConfig \/ FetchNext \/ PlaceNext \/ Summary \/ CliExit \/ Rerun

\* ------------------------------------------------------- specifications
OkUrl == "https://ok.example/h.md"
BadUrl == "https://bad.example/h.md"

\* The command line over whole configurations: at most MaxResources of these
\* resources, which share destinations, fail to fetch and fail to place.
SyncResources ==
  { LocalResource("a.md", FALSE, Some(TRUE), <<"out">>),
    LocalResource("dir", TRUE, Undefined, <<"nest/out", "b">>),
    LocalResource("a.md", FALSE, Some(FALSE), <<"b">>),
    HttpResource(OkUrl, Some(TRUE), <<"nest/out", "out">>),
    HttpResource(BadUrl, Some(TRUE), <<"b">>),
    CustomResource("nothing", Some(TRUE), <<"b", "out">>) }

SyncConfigs ==
  { [found |-> TRUE, plugins |-> <<"./custom-plugin.js">>, resources |-> rs] :
      rs \in SeqsUpTo(SyncResources, MaxResources) }

\* configurations loadConfig rejects
BrokenConfigs ==
  { [found |-> FALSE, plugins |-> <<>>, resources |-> <<>>],
    [found |-> TRUE, plugins |-> <<>>, resources |-> <<>>],
    [found |-> TRUE, plugins |-> <<"./missing-plugin.js">>,
     resources |-> <<LocalResource("a.md", FALSE, Some(TRUE), <<"out">>)>>],
    [found |-> TRUE, plugins |-> <<>>,
     resources |-> <<CustomResource("content", Some(TRUE), <<"out">>)>>],
    [found |-> TRUE, plugins |-> <<>>,
     resources |-> <<LocalResource("", FALSE, Some(TRUE), <<"out">>)>>],
    [found |-> TRUE, plugins |-> <<>>,
     resources |-> <<HttpResource(OkUrl, Some(TRUE), <<>>)>>] }

\* knowhub <command> [--dry-run]
Commands(commands) ==
  [entry : {"cli"}, command : commands, dryRun : BOOLEAN, quiet : {FALSE},
   symlinkOk : BOOLEAN]

Init ==
  /\ Fresh
  /\ registry = BuiltinRegistry
  /\ resources = <<>>
  /\ \/ /\ config \in SyncConfigs
        /\ env \in Commands({"sync"})
        /\ fs \in InitialFs({"absent", "other"}, {"absent", "file"}, {"absent"})
     \/ /\ config \in BrokenConfigs
        /\ env \in Commands({"sync", "help", "bogus"})
        /\ fs \in InitialFs({"absent"}, {"absent"}, {"absent"})

Spec == Init /\ [][Next]_vars

\* The placement of one resource, whatever is at its destinations: every way
\* to declare a local, an HTTP or a plugin resource, over every initial state
\* of the destinations.
PlaceResources ==
  ResourcesOf({"a.md", "dir"}, BOOLEAN, {OkUrl}, {"content", "path", "nothing"},
              {Some(TRUE), Some(FALSE)}, { o \in OutputLists : o[1] # "b" })

PlaceConfigs ==
  { [found |-> TRUE, plugins |-> <<"./custom-plugin.js">>, resources |-> <<r>>] :
      r \in PlaceResources }

InitPlace ==
  /\ Fresh
  /\ registry = BuiltinRegistry
  /\ resources = <<>>
  /\ config \in PlaceConfigs
  /\ env \in [entry : {"cli"}, command : {"sync"}, dryRun : {FALSE}, quiet : {FALSE},
            symlinkOk : BOOLEAN]
  /\ fs \in InitialFs(DestStates, NestStates, {"absent", "other", "stale"})

SpecPlace == InitPlace /\ [][Next]_vars

\* fetchResources called directly, as the tests and library users do, with a
\* plugin registered besides the built-in ones and descriptors that need not
\* have passed validation.
FetchDescriptors ==
  { [plugin |-> r.plugin, pluginConfig |-> r.pluginConfig, overwrite |-> TRUE,
     outputs |-> r.outputs] :
      r \in { LocalResource("a.md", FALSE, TRUE, <<"out">>),
              LocalResource("missing.md", FALSE, TRUE, <<"out">>),
              HttpResource(OkUrl, TRUE, <<"out">>),
              HttpResource(BadUrl, TRUE, <<"out">>),
              CustomResource("throwResourceError", TRUE, <<"out">>),
              CustomResource("throwError", TRUE, <<"out">>),
              CustomResource("throwValue", TRUE, <<"out">>),
              CustomResource("content", TRUE, <<"out">>),
              CustomResource("nothing", TRUE, <<"out">>),
              CustomResource("both", TRUE, <<"out">>),
              [plugin |-> "ghost", pluginConfig |-> [mode |-> "content"],
               overwrite |-> TRUE, outputs |-> <<"out">>] } }

InitFetch ==
  /\ Fresh
  /\ registry = register(BuiltinRegistry, Plugin("custom", "CustomPlugin"))
  /\ resources \in SeqsUpTo(FetchDescriptors, MaxResources) \cup {<<>>}
  /\ config = [found |-> FALSE, plugins |-> <<>>, resources |-> <<>>]
  /\ env = [entry |-> "fetchResources", command |-> "", dryRun |-> FALSE,
            quiet |-> FALSE, symlinkOk |-> TRUE]
  /\ fs = SourceFs

NextFetch == CallFetchResources \/ FetchNext

SpecFetch == InitFetch /\ [][NextFetch]_vars

\* fetchResources called directly with descriptors that did not go through
\* validateResource: configurations the built-in plugins accept, and
\* configurations they reject, one for each of their checks.
Descriptor(plugin, pluginConfig) ==
  [plugin |-> plugin, pluginConfig |-> pluginConfig, overwrite |-> TRUE,
   outputs |-> <<"out">>]

ValidateDescriptors ==
  { Descriptor("local", [path |-> "a.md", symlink |-> FALSE]),
    Descriptor("local", [path |-> "", symlink |-> FALSE]),
    Descriptor("local", Undefined),
    Descriptor("http", Undefined),
    Descriptor("http", [headers |-> JsObject(<<>>)]),
    Descriptor("http", [url |-> ""]),
    Descriptor("http", [url |-> "not-a-url"]),
    Descriptor("http", [url |-> "ftp://ok.example/h.md"]),
    Descriptor("http", [url |-> OkUrl, headers |-> JsString("X-Key: 1")]),
    Descriptor("http", [url |-> OkUrl,
                        headers |-> JsObject(<<[key |-> "Accept", value |-> JsString("*/*")],
                                               [key |-> "X-Key", value |-> JsNumber(1)]>>)]),
    Descriptor("http", [url |-> OkUrl, timeout |-> JsNumber(999)]),
    Descriptor("http", [url |-> OkUrl, method |-> JsString("FETCH")]),
    Descriptor("http", [url |-> OkUrl, body |-> JsNumber(0)]),
    Descriptor("http", [url |-> OkUrl,
                        headers |-> JsObject(<<[key |-> "Accept", value |-> JsString("*/*")]>>),
                        timeout |-> JsNumber(1000), method |-> JsString("post"),
                        body |-> JsString("q")]) }

InitValidate ==
  /\ Fresh
  /\ registry = BuiltinRegistry
  /\ resources \in SeqsUpTo(ValidateDescriptors, MaxResources)
  /\ config = [found |-> FALSE, plugins |-> <<>>, resources |-> <<>>]
  /\ env = [entry |-> "fetchResources", command |-> "", dryRun |-> FALSE,
            quiet |-> FALSE, symlinkOk |-> TRUE]
  /\ fs = SourceFs

SpecValidate == InitValidate /\ [][NextFetch]_vars

\* The placement of one local resource, a directory without files among the
\* sources, over destinations that are absent, hold the same content, or are
\* directories.
SkipResources ==
  ResourcesOf({"a.md", "dir", "empty"}, BOOLEAN, {}, {}, {Some(TRUE), Some(FALSE)},
              {<<"out">>, <<"out", "nest/out">>})

SkipConfigs ==
  { [found |-> TRUE, plugins |-> <<>>, resources |-> <<r>>] : r \in SkipResources }

InitSkip ==
  /\ Fresh
  /\ registry = BuiltinRegistry
  /\ resources = <<>>
  /\ config \in SkipConfigs
  /\ env \in [entry : {"cli"}, command : {"sync"}, dryRun : {FALSE}, quiet : {FALSE},
            symlinkOk : BOOLEAN]
  /\ fs \in InitialFs({"absent", "same", "dir"}, {"absent"}, {"absent"})

SpecSkip == InitSkip /\ [][Next]_vars

\* knowhub --quiet: the placement of one local resource, copied or linked,
\* on platforms that make symbolic links and on platforms that refuse them
InitQuiet ==
  /\ Fresh
  /\ registry = BuiltinRegistry
  /\ resources = <<>>
  /\ config \in SkipConfigs
  /\ env \in [entry : {"cli"}, command : {"sync"}, dryRun : {FALSE}, quiet : {TRUE},
              symlinkOk : BOOLEAN]
  /\ fs \in InitialFs({"absent", "same", "dir"}, {"absent"}, {"absent"})

SpecQuiet == InitQuiet /\ [][Next]_vars

\* knowhub init, in projects with and without a configuration: one of the
\* files cosmiconfig reads, a package.json with or without a "knowhub" field,
\* and the template where the package ships it, elsewhere, or nowhere.
TemplateText == "export default { resources: [] };"

RcFiles ==
  { ".knowhubrc.ts", ".knowhubrc.js", ".knowhubrc.json", ".knowhubrc.yaml",
    ".knowhubrc.yml", ".knowhubrc", ".knowhubrc.cjs" }

RcEntries == {{}} \cup { {<<<<n>>, File("rc")>>} : n \in RcFiles }

PackageJsons ==
  { "{\"name\":\"app\",\"knowhub\":{\"resources\":[]}}",
    "{\"name\":\"app\",\"knowhub\":null}", "{\"name\":\"app\"}", "{\"name\":" }

PackageEntries ==
  {{}, {<<<<"package.json">>, Dir>>}}
  \cup { {<<<<"package.json">>, File(c)>>} : c \in PackageJsons }

TemplateEntries ==
  { {},
    { <<<<"node_modules">>, Dir>>, <<<<"node_modules", "knowhub">>, Dir>>,
      <<<<"node_modules", "knowhub", "templates">>, Dir>>,
      <<possibleTemplatePaths[1], File(TemplateText)>> },
    { <<<<"node_modules">>, Dir>>, <<<<"node_modules", "templates">>, Dir>>,
      <<possibleTemplatePaths[2], File(TemplateText)>> } }

InitInit ==
  /\ Fresh
  /\ registry = BuiltinRegistry
  /\ resources = <<>>
  /\ config = [found |-> FALSE, plugins |-> <<>>, resources |-> <<>>]
  /\ env \in [entry : {"cli"}, command : {"init"}, dryRun : {FALSE}, quiet : BOOLEAN,
              symlinkOk : {TRUE}]
  /\ fs \in { MakeFs(rc \cup pkg \cup tpl) :
                rc \in RcEntries, pkg \in PackageEntries, tpl \in TemplateEntries }

NextInit == Cli \/ InitCommand \/ CliExit

SpecInit == InitInit /\ [][NextInit]_vars

\* The plugin registry driven directly, as its tests drive it: any MaxCalls
\* calls of register, unregister, clear, loadPlugin, loadPlugins and
\* loadConfig, from the empty registry or from the built-in one.
RegistryPlugins ==
  { Plugin("mock", "MockPlugin 1.0.0"), Plugin("mock", "MockPlugin 2.0.0"),
    Plugin("http", "HttpPlugin"), Plugin("Zed", "ZedPlugin") }

RegistryNames == {"mock", "http", "ghost"}

PluginPaths ==
  { "./custom-plugin.js", "./mock-instance.js", "./named.js", "./invalid.js",
    "./shadowed.js", "./broken.js", "./non-existent.js" }

PluginPathLists ==
  { <<"./custom-plugin.js", "./mock-instance.js">>,
    <<"./custom-plugin.js", "./non-existent.js", "./mock-instance.js">>,
    <<"./invalid.js", "./custom-plugin.js">>,
    <<"./named.js", "./mock-instance.js", "./shadowed.js">> }

RegistryConfigs ==
  { [found |-> TRUE, plugins |-> ps,
     resources |-> <<CustomResource("content", Some(TRUE), <<"out">>)>>] :
      ps \in { <<"./invalid.js">>, <<"./custom-plugin.js", "./broken.js">>,
               <<"./custom-plugin.js">> } }

InitRegistry ==
  /\ Fresh
  /\ registry \in {<<>>, BuiltinRegistry}
  /\ resources = <<>>
  /\ config = [found |-> FALSE, plugins |-> <<>>, resources |-> <<>>]
  /\ env = [entry |-> "registry", command |-> "", dryRun |-> FALSE, quiet |-> FALSE,
            symlinkOk |-> TRUE]
  /\ fs = SourceFs

NextRegistry ==
  \/ \E plugin \in RegistryPlugins : Register(plugin)
  \/ \E name \in RegistryNames : Unregister(name)
  \/ Clear
  \/ \E pluginPath \in PluginPaths : LoadPlugin(pluginPath)
  \/ \E pluginPaths \in PluginPathLists : LoadPlugins(pluginPaths)
  \/ \E cfg \in RegistryConfigs : CallLoadConfig(cfg)

SpecRegistry == InitRegistry /\ [][NextRegistry]_vars

\* ------------------------------------------------------------ properties
\* the outputs a configuration declares, by resource and position
OutputSlots ==
  { s \in (1..Len(config.resources)) \X (1..MaxOutputs + 1) :
      s[2] <= Len(config.resources[s[1]].outputs) }

OutputAt(s) == config.resources[s[1]].outputs[s[2]]

TotalOutputs == Cardinality(OutputSlots)

\* no two declared outputs name the same path
DistinctOutputs == \A s, t \in OutputSlots : s # t => OutputAt(s) # OutputAt(t)

\* every resource is declared with overwrite true (or leaves it out)
AllOverwrite ==
  \A i \in 1..Len(config.resources) : validateOverwrite(config.resources[i].overwrite)

\* the second of two runs of runSync has returned, the first having recorded
\* no error
SecondRunDone ==
  /\ env.command = "sync"
  /\ run = 2
  /\ pc = "done"
  /\ prev.valid
  /\ prev.result.errors = <<>>

\* what C1 promises of the second run
SecondRunIdle ==
  /\ result.created = 0
  /\ result.updated = 0
  /\ result.skipped = TotalOutputs
  /\ fs = prev.fs

SkippedNoOverwrite(output) ==
  LogEntry("skip", "- Skipped: " \o output \o " (already exists, overwrite: false)")

\* the paths, relative to the directory src, of the files below it
FilesBelow(f, src) ==
  { SubSeq(p, Len(src) + 1, Len(p)) :
      p \in { q \in DOMAIN f : /\ Len(q) > Len(src)
                               /\ SubSeq(q, 1, Len(src)) = src
                               /\ f[q].t = "file" } }

\* the placement steps of the current run made with overwrite false
StepsNoOverwrite == { k \in 1..Len(steps) : ~steps[k].overwrite }

\* a step of copyFile, writeTextFile or symlinkOrCopy on a destination that
\* exists: nothing changes, and the output is reported skipped for its
\* overwrite flag
KeptWhole(st) ==
  (st.via \in {"copyFile", "writeTextFile", "symlinkOrCopy"}
   /\ pathExists(st.before, resolve(st.output)))
  => /\ st.after = st.before
     /\ st.created = 0 /\ st.updated = 0
     /\ st.outcome = "skipped"
     /\ st.logs = <<SkippedNoOverwrite(st.output)>>

\* a step of copyDirectory: every file of the destination that exists where
\* a source file is to go holds afterwards what it held
KeptFiles(st, src) ==
  st.via = "copyDirectory"
  => \A rel \in FilesBelow(st.before, src) :
       pathExists(st.before, resolve(st.output) \o rel)
       => readFile(st.after, resolve(st.output) \o rel)
          = readFile(st.before, resolve(st.output) \o rel)

\* C2: with overwrite false, copyFile, writeTextFile and symlinkOrCopy leave a
\* destination that exists as it is, report created = updated = false, and
\* runSync counts the output as skipped with "(already exists, overwrite:
\* false)"; copyDirectory leaves every destination file that exists as it is.
C2_OverwriteFalseKeeps ==
  \A k \in StepsNoOverwrite :
    /\ KeptWhole(steps[k])
    /\ fetched[steps[k].res].localPath.def
       => KeptFiles(steps[k], fetched[steps[k].res].localPath.v)

\* C2 witness: copyFile met a destination whose content differs from the
\* source, with overwrite false, and the output was skipped.
C2_Witness ==
  \E k \in StepsNoOverwrite :
    /\ steps[k].via = "copyFile"
    /\ pathExists(steps[k].before, resolve(steps[k].output))
    /\ readFile(steps[k].before, resolve(steps[k].output))
       # readFile(steps[k].before, fetched[steps[k].res].localPath.v)
    /\ steps[k].outcome = "skipped"

\* placeResourceAtOutput raised an exception in the step st
Raised(st) ==
  /\ ~env.dryRun
  /\ ~placeResourceAtOutput(st.before, fetched[st.res], resolve(st.output),
                            env.symlinkOk).ok

\* the steps in which placing the output raised, in the order they were made
RaisedSteps == SelectSeq(steps, Raised)

\* the steps follow the resources in declared order and, within a resource,
\* its outputs in declared order
StepsInOrder ==
  /\ steps # <<>> => steps[1].res = 1 /\ steps[1].out = 1
  /\ \A k \in 1..Len(steps) - 1 :
       IF steps[k].out < Len(fetched[steps[k].res].definition.outputs)
       THEN steps[k + 1].res = steps[k].res /\ steps[k + 1].out = steps[k].out + 1
       ELSE steps[k + 1].res = steps[k].res + 1 /\ steps[k + 1].out = 1
  /\ \A k \in 1..Len(steps) :
       steps[k].output = fetched[steps[k].res].definition.outputs[steps[k].out]

\* C3: when placing an output raises, exactly one message naming that output
\* is appended to errors and one error is logged; every later output of the
\* resource and every later resource is still processed; errors is in
\* resource-then-output order.
C3_OutputFailureTolerated ==
  (pc \in {"place", "summary"} \/ steps # <<>>)
  => /\ StepsInOrder
     /\ pc = "summary" => Len(steps) = TotalOutputs
     /\ Len(result.errors) = Len(RaisedSteps)
     /\ \A i \in 1..Len(RaisedSteps) :
          /\ Contains(result.errors[i], "\"" \o RaisedSteps[i].output \o "\"")
          /\ RaisedSteps[i].logs
             = <<LogEntry("error", CrossMark \o " " \o result.errors[i])>>
     /\ \A k \in 1..Len(steps) :
          ~Raised(steps[k])
          => \A m \in 1..Len(steps[k].logs) : steps[k].logs[m].level # "error"

\* C3 witness: an output failed, a later output of the same resource was
\* created, and an output of a later resource failed as well.
C3_Witness ==
  /\ pc = "summary"
  /\ \E k \in 1..Len(steps) - 1 :
       /\ Raised(steps[k])
       /\ steps[k + 1].res = steps[k].res
       /\ steps[k + 1].outcome = "created"
       /\ \E m \in k + 2..Len(steps) : steps[m].res > steps[k].res /\ Raised(steps[m])

\* the first run of runSync has returned, and it was not a dry run
FirstRunDone == env.command = "sync" /\ ~env.dryRun /\ run = 1 /\ pc = "done"

\* the resource can be fetched, and nothing stands in the way of its outputs
ValidResource(r) ==
  /\ r.plugin \in {"local", "http"}
  /\ FetchStep(registry, fs, r).ok
  /\ NodeAt(fs, <<"nest">>).t # "file"

\* three resources, the second an HTTP resource whose server answers with a
\* status that is not 2xx, the first and the third valid
SecondOfThreeFails ==
  /\ Len(config.resources) = 3
  /\ config.resources[2].plugin = "http"
  /\ HttpResponse(config.resources[2].pluginConfig.url).status # 200
  /\ ValidResource(config.resources[1])
  /\ ValidResource(config.resources[3])

\* C4 as stated: over three resources of which the second is an HTTP fetch
\* answered with a non-2xx status, the outputs of the first and the third are
\* still created, and errors has exactly one entry, which names the failing
\* resource.
C4_AsStated ==
  (FirstRunDone /\ SecondOfThreeFails)
  => /\ \A i \in {1, 3} : \A j \in 1..Len(config.resources[i].outputs) :
          pathExists(fs, resolve(config.resources[i].outputs[j]))
     /\ Len(result.errors) = 1
     /\ Contains(result.errors[1], config.resources[2].pluginConfig.url)

\* fetching the descriptor d fails: no plugin of that name, or its fetch throws
Fails(d) ==
  \/ ~has(registry, d.plugin)
  \/ ~PluginFetch(resolvePlugin(registry, d.plugin).plugin.impl, fs, d.pluginConfig).ok

\* the descriptors of the call whose fetch fails
Failing == { i \in 1..Len(resources) : Fails(resources[i]) }

\* the first of them
FirstFailing == CHOOSE i \in Failing : \A j \in Failing : i <= j

\* fetchResources has been called and has returned or thrown
FetchResourcesDone == env.entry = "fetchResources" /\ pc = "done"

\* C5: fetchResources invokes the plugins in input order, one after another;
\* on success it returns one FetchedResource per descriptor, in order, each
\* holding its descriptor; when descriptor i fails it raises a ResourceError,
\* invokes no plugin for a descriptor after i, and returns no list.
C5_SequentialAbort ==
  env.entry = "fetchResources"
  => /\ \A k \in 1..Len(fetchCalls) : fetchCalls[k] = k
     /\ (pc # "done") => (thrown = NoError /\ ~returned.def)
     /\ (FetchResourcesDone /\ Failing = {})
        => /\ thrown = NoError
           /\ returned.def
           /\ Len(returned.v) = Len(resources)
           /\ \A i \in 1..Len(resources) : returned.v[i].definition = resources[i]
           /\ Len(fetchCalls) = Len(resources)
     /\ (FetchResourcesDone /\ Failing # {})
        => /\ thrown.kind = "ResourceError"
           /\ ~returned.def
           /\ \A k \in 1..Len(fetchCalls) : fetchCalls[k] <= FirstFailing
           /\ Len(fetchCalls) >= FirstFailing - 1

\* C5 witness: of three descriptors the second failed in its plugin; the
\* third, which would have been fetched, never was, and nothing was returned.
C5_Witness ==
  /\ FetchResourcesDone
  /\ Len(resources) = 3
  /\ FirstFailing = 2
  /\ ~Fails(resources[3])
  /\ fetchCalls = <<1, 2>>
  /\ thrown.kind = "ResourceError"
  /\ ~returned.def

\* fetchResources has thrown; the descriptor it was fetching is at idx.res
FetchResourcesThrew == env.entry = "fetchResources" /\ thrown # NoError

\* what the plugin of the descriptor d threw
PluginThrew(d) ==
  PluginFetch(resolvePlugin(registry, d.plugin).plugin.impl, fs, d.pluginConfig).err

\* the error e is what C6 promises for the failure of the descriptor d
UniformFor(e, d) ==
  /\ e.kind = "ResourceError"
  /\ IF ~has(registry, d.plugin) THEN Contains(e.msg, d.plugin)
     ELSE IF PluginThrew(d).kind = "ResourceError" THEN e = PluginThrew(d)
     ELSE /\ Contains(e.msg, "\"" \o d.plugin \o "\"")
          /\ Contains(e.msg, PluginThrew(d).msg)

\* C6: every error that escapes fetchResources is a ResourceError: the
\* plugin's own ResourceError, unchanged; any other error of the plugin
\* wrapped, with the plugin's name and the original message in the message;
\* for an unknown plugin, one that names the plugin asked for.
C6_UniformFetchError ==
  FetchResourcesThrew => (Fails(resources[idx.res]) /\ UniformFor(thrown, resources[idx.res]))

\* C6 witness: the HTTP plugin failed on a 500 response with an error that is
\* no ResourceError, and fetchResources threw a ResourceError that names the
\* plugin and carries the plugin's message.
C6_Witness ==
  /\ FetchResourcesThrew
  /\ resources[idx.res].plugin = "http"
  /\ PluginThrew(resources[idx.res]).kind = "PluginError"
  /\ thrown.kind = "ResourceError"
  /\ Contains(thrown.msg, "HTTP 500")

\* the process of a command line that ran runSync has ended
SyncExited == env.entry = "cli" /\ env.command = "sync" /\ pc = "done"

\* C7 as stated: the process ends with a non-zero exit code whenever the
\* result of runSync has errors, and with zero only when it has none.
C7_AsStated == SyncExited => (exitCode # 0 <=> result.errors # <<>>)

RECURSIVE FlatOutputs(_)
\* the outputs of the resources rs, in declared order
FlatOutputs(rs) ==
  IF rs = <<>> THEN <<>> ELSE Head(rs).outputs \o FlatOutputs(Tail(rs))

IsDryRunMessage(l) == Contains(l.message, "[DRY RUN] Would process")

\* the messages a dry run owes: one per declared output, in declared order
DryRunMessages(outputs) ==
  [k \in 1..Len(outputs) |-> LogEntry("info", "[DRY RUN] Would process: " \o outputs[k])]

\* a dry run of runSync has returned
DryRunDone == env.command = "sync" /\ env.dryRun /\ pc \in {"exit", "done"}

\* what C8 promises of the log and of the counts
DryRunReport ==
  /\ SelectSeq(logs, IsDryRunMessage) = DryRunMessages(FlatOutputs(config.resources))
  /\ result.created = 0 /\ result.updated = 0 /\ result.skipped = 0

\* the configuration loaded and every resource of it was fetched
AllFetched == Len(fetched) = Len(config.resources) /\ config.resources # <<>>

LinkSteps == { k \in 1..Len(steps) : steps[k].via = "symlinkOrCopy" }

\* dest holds a true copy of src: the same content, for a directory in every
\* file below it
TrueCopy(f, src, dest, isDir) ==
  IF isDir
  THEN \A rel \in FilesBelow(f, src) :
         /\ readFile(f, dest \o rel).ok
         /\ readFile(f, dest \o rel) = readFile(f, src \o rel)
  ELSE readFile(f, dest).ok /\ readFile(f, dest) = readFile(f, src)

\* the fallback copy of symlinkOrCopy, made on the filesystem f
FallbackCopy(f, src, dest, overwrite, isDir) ==
  IF isDir THEN copyDirectory(f, src, dest, overwrite)
  ELSE copyFile(f, src, dest, overwrite)

\* what C10 promises of a step that went from src to dest, e being the
\* outcome of ensuring the parent of dest and l that of the symlink call
FallbackHonest(st, src, dest, isDir, exists, e, l) ==
  /\ (~(exists /\ ~st.overwrite) /\ e.ok /\ ~l.ok
      /\ FallbackCopy(e.fs, src, dest, st.overwrite, isDir).ok)
     => /\ ~st.usedSymlink
        /\ st.outcome # "failed"
        /\ st.after = FallbackCopy(e.fs, src, dest, st.overwrite, isDir).fs
        /\ pathExists(st.after, dest)
        /\ TrueCopy(st.after, src, dest, isDir)
        /\ IF isDir
           THEN /\ st.created
                   = B2N(FallbackCopy(e.fs, src, dest, st.overwrite, isDir).created > 0
                         /\ ~exists)
                /\ st.updated
                   = B2N(FallbackCopy(e.fs, src, dest, st.overwrite, isDir).created > 0
                         /\ exists)
           ELSE /\ st.created
                   = B2N(FallbackCopy(e.fs, src, dest, st.overwrite, isDir).created)
                /\ st.updated
                   = B2N(FallbackCopy(e.fs, src, dest, st.overwrite, isDir).updated)
  /\ st.usedSymlink
     => /\ ~(exists /\ ~st.overwrite) /\ e.ok /\ l.ok
        /\ NodeAt(st.after, dest) = Link(relative(dirname(dest), src))

\* the same, with the parent of dest ensured and the symlink call made
FallbackHonestAt(st, src, dest, isDir, e) ==
  FallbackHonest(st, src, dest, isDir, pathExists(st.before, dest), e,
                 symlink(e.fs, relative(dirname(dest), src), dest, env.symlinkOk))

\* C10: in symlinkOrCopy with the destination not skipped, when the symlink
\* call fails and the fallback copy succeeds, the call returns usedSymlink
\* false, the destination exists and holds a true copy of the source, and
\* created/updated are those of the copy under the same overwrite flag;
\* usedSymlink true is returned only when the symlink call succeeded.
C10_SymlinkFallback ==
  \A k \in LinkSteps :
    FallbackHonestAt(steps[k], fetched[steps[k].res].localPath.v,
                     resolve(steps[k].output), fetched[steps[k].res].isDirectory,
                     ensureDirectoryExists(steps[k].before,
                                           dirname(resolve(steps[k].output))))

\* C10 witness: the symlink call failed on a destination directory that held
\* a stale file; the fallback copy rewrote it and the output was reported
\* updated, not linked.
C10_Witness ==
  \E k \in LinkSteps :
    /\ steps[k].console # <<>>
    /\ fetched[steps[k].res].isDirectory
    /\ ~steps[k].usedSymlink
    /\ steps[k].outcome = "updated"
    /\ readFile(steps[k].before, resolve(steps[k].output) \o <<"f">>)
       # readFile(steps[k].after, resolve(steps[k].output) \o <<"f">>)

\* both strategies of symlinkOrCopy fail in the step st, which goes from src
\* to dest: the destination is not skipped, its parent can be ensured, the
\* symlink call fails and so does the fallback copy
DoubleFailure(st, src, dest, isDir) ==
  LET e == ensureDirectoryExists(st.before, dirname(dest))
      l == symlink(e.fs, relative(dirname(dest), src), dest, env.symlinkOk)
  IN  /\ ~(pathExists(st.before, dest) /\ ~st.overwrite)
      /\ e.ok
      /\ ~l.ok
      /\ ~FallbackCopy(l.fs, src, dest, st.overwrite, isDir).ok

\* the steps of the current run in which both strategies failed
DoubleFailures ==
  { k \in LinkSteps :
      DoubleFailure(steps[k], fetched[steps[k].res].localPath.v,
                    resolve(steps[k].output), fetched[steps[k].res].isDirectory) }

\* what symlinkOrCopy raises in the step st: a FileOperationError whose
\* message and filePath name the destination
RaisesComposite(st, src, dest, isDir) ==
  LET r == symlinkOrCopy(st.before, src, dest, st.overwrite, isDir, env.symlinkOk)
  IN  /\ ~r.ok
      /\ r.err.kind = "FileOperationError"
      /\ Contains(r.err.msg, PathStr(dest))
      /\ r.err.path = PathStr(dest)
      /\ st.outcome = "failed"
      /\ st.logs = <<LogEntry("error", CrossMark \o " " \o FullError(st.output, r.err))>>

RaisesCompositeAt(k) ==
  RaisesComposite(steps[k], fetched[steps[k].res].localPath.v,
                  resolve(steps[k].output), fetched[steps[k].res].isDirectory)

\* C11 as stated: when both the symlink attempt and the fallback copy fail
\* for an output, symlinkOrCopy raises a FileOperationError whose message and
\* filePath name the destination, and no further output or resource is
\* processed after it.
C11_AsStated ==
  \A k \in DoubleFailures : RaisesCompositeAt(k) /\ k = Len(steps)

\* C11, amended: when both the symlink attempt and the fallback copy fail for
\* an output, symlinkOrCopy raises a FileOperationError whose message and
\* filePath name the destination; processFetchedResource records it as the
\* failure of that output, and the outputs and resources after it are still
\* processed.
C11_DoubleFailure ==
  \A k \in DoubleFailures :
    /\ RaisesCompositeAt(k)
    /\ \E i \in 1..Len(result.errors) :
         steps[k].logs[1].message = CrossMark \o " " \o result.errors[i]
    /\ pc = "summary" => Len(steps) = TotalOutputs
    /\ (pc = "place" /\ k = Len(steps)) => idx # [res |-> steps[k].res, out |-> steps[k].out]

\* C11 witness: linking a directory onto a destination that holds a file
\* failed in both strategies, and an output of a later resource was written
\* after it.
C11_Witness ==
  \E k \in DoubleFailures :
    /\ fetched[steps[k].res].isDirectory
    /\ \E m \in k + 1..Len(steps) :
         /\ steps[m].res > steps[k].res
         /\ steps[m].outcome \in {"created", "updated"}

\* the names asked of the registry: those a call can have registered, and
\* one that never is
ProbeNames == {"mock", "http", "Zed", "local", "custom", "ghost"}

\* the registry before the first call
FirstRegistry == IF steps = <<>> THEN registry ELSE steps[1].before

RECURSIVE LastRegistered(_)
\* By name, the plugin most recently registered and not removed since, after
\* the first k calls: register(p) puts p under its name, unregister(n) removes
\* n, clear() removes every name; a load leaves what it leaves.
LastRegistered(k) ==
  IF k = 0 THEN [n \in ProbeNames |-> MapGet(FirstRegistry, n)]
  ELSE IF steps[k].op = "register"
  THEN [n \in ProbeNames |-> IF n = steps[k].arg.name THEN Some(steps[k].arg)
                              ELSE LastRegistered(k - 1)[n]]
  ELSE IF steps[k].op = "unregister"
  THEN [n \in ProbeNames |-> IF n = steps[k].arg THEN Undefined
                              ELSE LastRegistered(k - 1)[n]]
  ELSE IF steps[k].op = "clear" THEN [n \in ProbeNames |-> Undefined]
  ELSE [n \in ProbeNames |-> MapGet(steps[k].after, n)]

\* resolve(n) and has(n) answer for the name n as `expected` says
ResolvesAs(n, expected) ==
  /\ expected.def
     => /\ resolvePlugin(registry, n).ok
        /\ resolvePlugin(registry, n).plugin = expected.v
  /\ ~expected.def
     => /\ ~resolvePlugin(registry, n).ok
        /\ resolvePlugin(registry, n).err.kind = "PluginNotFoundError"
        /\ Contains(resolvePlugin(registry, n).err.msg, n)
  /\ has(registry, n) <=> resolvePlugin(registry, n).ok

\* C12: after any sequence of register, unregister and clear, resolve(n)
\* returns the plugin most recently registered under n if n has been
\* registered and not removed since, and otherwise raises a
\* PluginNotFoundError whose message contains n; has(n) is true exactly when
\* resolve(n) succeeds.
C12_LastRegistrationWins ==
  env.entry = "registry"
  => \A n \in ProbeNames : ResolvesAs(n, LastRegistered(Len(steps))[n])

\* C12 witness: two plugins were registered under one name, the name was not
\* removed afterwards, and resolve returns the second of them.
C12_Witness ==
  /\ env.entry = "registry"
  /\ \E i, j \in 1..Len(steps) :
       /\ i < j
       /\ steps[i].op = "register" /\ steps[j].op = "register"
       /\ steps[i].arg.name = steps[j].arg.name
       /\ steps[i].arg # steps[j].arg
       /\ \A k \in j + 1..Len(steps) : steps[k].op = "register"
       /\ resolvePlugin(registry, steps[j].arg.name).plugin = steps[j].arg
       /\ resolvePlugin(registry, steps[j].arg.name).plugin # steps[i].arg

\* a comes before b in the lexicographic order of the code units: at the
\* first position where they differ a has the smaller unit, or a ends there
LexBefore(a, b) ==
  \E k \in 1..Len(b) :
    /\ k <= Len(a) + 1
    /\ SubSeq(a, 1, k - 1) = SubSeq(b, 1, k - 1)
    /\ k = Len(a) + 1 \/ charCodeAt(a, k) < charCodeAt(b, k)

\* the names registered, as has answers
RegisteredNames(reg) == { n \in ProbeNames : has(reg, n) }

\* the sequence l lists the set S in ascending order, each member once
ListsSorted(l, S) ==
  /\ { l[i] : i \in 1..Len(l) } = S
  /\ \A i, j \in 1..Len(l) : i < j => LexBefore(l[i], l[j])

\* the calls of register made on a name that was registered
Reregistrations ==
  { k \in 1..Len(steps) : steps[k].op = "register" /\ has(steps[k].before, steps[k].arg.name) }

\* C13: after any sequence of registry operations, listAvailable() is the
\* lexicographically sorted list of the registered names, none repeated, and
\* size() is its length; registering a plugin under a name that is registered
\* leaves size() as it was.
C13_ListAvailableSorted ==
  env.entry = "registry"
  => /\ ListsSorted(listAvailable(registry), RegisteredNames(registry))
     /\ size(registry) = Len(listAvailable(registry))
     /\ \A k \in Reregistrations : size(steps[k].after) = size(steps[k].before)

\* C13 witness: three names registered out of order, one of them twice, are
\* listed in order, and the second registration left the size at three.
C13_Witness ==
  /\ env.entry = "registry"
  /\ listAvailable(registry) = <<"Zed", "http", "local", "mock">>
  /\ keys(registry) # listAvailable(registry)
  /\ Reregistrations # {}

\* the calls of unregister made so far
Unregistrations == { k \in 1..Len(steps) : steps[k].op = "unregister" }

\* what C14 promises of the call c of unregister
UnregisterExact(c) ==
  /\ c.ret = Some(has(c.before, c.arg))
  /\ ~has(c.after, c.arg)
  /\ has(c.before, c.arg)
     => /\ size(c.after) = size(c.before) - 1
        /\ \A n \in ProbeNames \ {c.arg} :
             resolvePlugin(c.after, n) = resolvePlugin(c.before, n)
  /\ ~has(c.before, c.arg) => c.after = c.before

\* C14: unregister(n) returns true exactly when n was registered before the
\* call; afterwards has(n) is false, size() is one less, and every other name
\* resolves to the plugin it resolved to; unregister of a name that is not
\* registered returns false and changes nothing.
C14_UnregisterExact == \A k \in Unregistrations : UnregisterExact(steps[k])

\* C14 witness: of three registered names one was unregistered, which
\* returned true, and the other two still resolve; a second unregister of the
\* same name returned false.
C14_Witness ==
  \E i, j \in Unregistrations :
    /\ i < j
    /\ steps[i].arg = steps[j].arg
    /\ size(steps[i].before) = 3
    /\ steps[i].ret = Some(TRUE)
    /\ steps[j].ret = Some(FALSE)
    /\ size(steps[j].after) = 2

\* the plugin paths that cannot be loaded: no file, a file that fails to
\* import, no plugin-shaped export in the module
FailingPaths == {"./non-existent.js", "./broken.js", "./invalid.js", "./shadowed.js"}

\* the first path of the list that cannot be loaded
FirstFailingPath(paths) ==
  paths[CHOOSE i \in 1..Len(paths) :
          /\ paths[i] \in FailingPaths
          /\ \A j \in 1..i - 1 : paths[j] \notin FailingPaths]

\* the list holds a path that cannot be loaded
SomeFailingPath(paths) == \E i \in 1..Len(paths) : paths[i] \in FailingPaths

\* the calls of loadPlugin made so far
PluginLoads == { k \in 1..Len(steps) : steps[k].op = "loadPlugin" }

\* the calls of loadConfig made so far
ConfigLoads == { k \in 1..Len(steps) : steps[k].op = "loadConfig" }

\* C15: a loadPlugin that fails (missing file, import error, no plugin-shaped
\* export) leaves the registry with exactly the entries it had, and the
\* failure surfaces from loadConfig as a ConfigurationError whose message
\* contains the plugin path.
C15_FailedLoadRegistersNothing ==
  /\ \A k \in PluginLoads :
       /\ steps[k].ok <=> steps[k].arg \notin FailingPaths
       /\ ~steps[k].ok
          => /\ steps[k].after = steps[k].before
             /\ Contains(steps[k].err.msg, steps[k].arg)
  /\ \A k \in ConfigLoads :
       SomeFailingPath(steps[k].arg.plugins)
       => /\ ~steps[k].ok
          /\ steps[k].err.kind = "ConfigurationError"
          /\ Contains(steps[k].err.msg, FirstFailingPath(steps[k].arg.plugins))

\* C15 witness: on a registry that holds plugins, loading a module without a
\* plugin-shaped export failed and left the registry as it was, and loadConfig
\* on a configuration naming that module threw a ConfigurationError.
C15_Witness ==
  /\ \E k \in PluginLoads :
       /\ steps[k].arg = "./invalid.js"
       /\ ~steps[k].ok
       /\ steps[k].before # <<>>
  /\ \E k \in ConfigLoads :
       /\ steps[k].arg.plugins = <<"./invalid.js">>
       /\ steps[k].err.kind = "ConfigurationError"

\* the plugin the module at a path that can be loaded exports
PluginAt(path) ==
  IF path = "./custom-plugin.js" THEN Plugin("custom", "CustomPlugin")
  ELSE IF path = "./mock-instance.js" THEN Plugin("mock", "MockPlugin 2.0.0")
  ELSE Plugin("http", "NamedPlugin")

\* the number of paths of the list that loadPlugins gets to: up to the first
\* that cannot be loaded, that one included
Reached(paths) ==
  IF SomeFailingPath(paths)
  THEN CHOOSE i \in 1..Len(paths) : /\ paths[i] \in FailingPaths
                                    /\ \A j \in 1..i - 1 : paths[j] \notin FailingPaths
  ELSE Len(paths)

\* the paths of the list that are loaded: those before the first failing one
Loaded(paths) ==
  SubSeq(paths, 1, IF SomeFailingPath(paths) THEN Reached(paths) - 1 ELSE Len(paths))

\* the calls of loadPlugins made so far
ListLoads == { k \in 1..Len(steps) : steps[k].op = "loadPlugins" }

\* what C16 promises of the call c of loadPlugins
LoadsInOrder(c) ==
  /\ c.imported = SubSeq(c.arg, 1, Reached(c.arg))
  /\ c.ok <=> ~SomeFailingPath(c.arg)
  /\ ~c.ok => c.err = loadPlugin(c.before, FirstFailingPath(c.arg)).err
  /\ \A i \in 1..Len(Loaded(c.arg)) :
       /\ resolvePlugin(c.after, PluginAt(c.arg[i]).name).ok
       /\ resolvePlugin(c.after, PluginAt(c.arg[i]).name).plugin = PluginAt(c.arg[i])
  /\ \A n \in ProbeNames :
       (\A i \in 1..Len(Loaded(c.arg)) : PluginAt(c.arg[i]).name # n)
       => MapGet(c.after, n) = MapGet(c.before, n)

\* C16: loadPlugins loads the paths one at a time in list order; when path i
\* fails the call fails with that error, no path after i is imported or
\* registered, and the plugins of the paths before i are registered.
C16_LoadPluginsStopsAtFirst == \A k \in ListLoads : LoadsInOrder(steps[k])

\* C16 witness: of three paths the second could not be loaded; the plugin of
\* the first is registered, and the third, which could have been loaded, was
\* neither imported nor registered.
C16_Witness ==
  \E k \in ListLoads :
    /\ Len(steps[k].arg) = 3
    /\ Reached(steps[k].arg) = 2
    /\ steps[k].arg[3] \notin FailingPaths
    /\ ~steps[k].ok
    /\ steps[k].imported = SubSeq(steps[k].arg, 1, 2)
    /\ has(steps[k].after, PluginAt(steps[k].arg[1]).name)
    /\ ~has(steps[k].after, PluginAt(steps[k].arg[3]).name)

\* the steps of the current run placed by copyDirectory with overwrite true
TreeSteps == { k \in 1..Len(steps) : steps[k].via = "copyDirectory" /\ steps[k].overwrite }

\* what C17 promises of the call r = copyDirectory(src, dest, true) made on
\* the filesystem f, when it returns
TreeFidelity(f, src, dest, r) ==
  r.ok
  => /\ \A rel \in FilesBelow(f, src) :
          /\ stat(r.fs, dest \o rel).ok
          /\ stat(r.fs, dest \o rel).node.t = "file"
          /\ readFile(r.fs, dest \o rel).c = readFile(f, src \o rel).c
     /\ ~pathExists(f, dest)
        => /\ FilesBelow(r.fs, dest) = FilesBelow(f, src)
           /\ r.created = Cardinality(FilesBelow(f, src))
           /\ r.skipped = 0

\* the same of the step st, which copied src to dest
TreeFidelityAt(st, src, dest) ==
  /\ TreeFidelity(st.before, src, dest, copyDirectory(st.before, src, dest, TRUE))
  /\ st.after = copyDirectory(st.before, src, dest, TRUE).fs
  /\ st.outcome # "failed" => st.created = copyDirectory(st.before, src, dest, TRUE).created

\* C17: after copyDirectory(src, dest, overwrite = true), for every regular
\* file at any depth under src, dest holds a file at the same relative path
\* with the same content; when dest did not exist before, dest holds exactly
\* those N files and the call reports created = N and skipped = 0.
C17_TreeFidelity ==
  \A k \in TreeSteps :
    TreeFidelityAt(steps[k], fetched[steps[k].res].localPath.v, resolve(steps[k].output))

\* C17 witness: a directory with a file and a nested file was copied to a
\* destination below a directory that did not exist; both files are there
\* and created = 2 was reported.
C17_Witness ==
  \E k \in TreeSteps :
    /\ ~pathExists(steps[k].before, dirname(resolve(steps[k].output)))
    /\ Len(resolve(steps[k].output)) = 2
    /\ steps[k].created = 2
    /\ readFile(steps[k].after, resolve(steps[k].output) \o <<"sub", "g">>).c = "G"
    /\ readFile(steps[k].after, resolve(steps[k].output) \o <<"f">>).c = "X"

\* the steps of the current run placed by copyFile or by writeTextFile
FileSteps == { k \in 1..Len(steps) : steps[k].via \in {"copyFile", "writeTextFile"} }

\* the content the step k is to put at its destination: that of the source
\* file for copyFile, the fetched text for writeTextFile
SourceContent(k) ==
  IF steps[k].via = "copyFile"
  THEN readFile(steps[k].before, fetched[steps[k].res].localPath.v).c
  ELSE fetched[steps[k].res].content.v

\* the call made in the step k, made again on the filesystem it met
FileCall(k) ==
  IF steps[k].via = "copyFile"
  THEN copyFile(steps[k].before, fetched[steps[k].res].localPath.v,
                resolve(steps[k].output), steps[k].overwrite)
  ELSE writeTextFile(steps[k].before, resolve(steps[k].output),
                     fetched[steps[k].res].content.v, steps[k].overwrite)

\* the destination holds the content
Holds(f, dest, content) == readFile(f, dest).ok /\ readFile(f, dest).c = content

\* what C18 promises of the result r of a call that returned, made on the
\* filesystem f with the destination dest
ThreeResults(f, dest, content, overwrite, r) ==
  /\ ~pathExists(f, dest)
     => /\ r.created /\ ~r.updated
        /\ isDirectory(r.fs, dirname(dest))
        /\ Holds(r.fs, dest, content)
  /\ (pathExists(f, dest) /\ overwrite /\ ~Holds(f, dest, content))
     => /\ ~r.created /\ r.updated
        /\ Holds(r.fs, dest, content)
  /\ (pathExists(f, dest) /\ (~overwrite \/ Holds(f, dest, content)))
     => /\ ~r.created /\ ~r.updated
        /\ r.fs = f
  /\ ~(r.created /\ r.updated)

\* the same of the step k
ThreeResultsAt(k, r) ==
  r.ok
  => /\ ThreeResults(steps[k].before, resolve(steps[k].output), SourceContent(k),
                     steps[k].overwrite, r)
     /\ steps[k].after = r.fs
     /\ steps[k].created = B2N(r.created)
     /\ steps[k].updated = B2N(r.updated)

\* C18: copyFile and writeTextFile return one of three results, by the state
\* of the destination before the call: absent: the parent directories are
\* created, the destination is written with the source content, created;
\* present, overwrite true and the content differs: the destination is
\* overwritten with the source content, updated; present and overwrite false
\* or the content the same: nothing is written, neither created nor updated.
\* created and updated are never both true.
C18_ThreeResults == \A k \in FileSteps : ThreeResultsAt(k, FileCall(k))

\* C18 witness: in one run a destination holding other content was updated
\* and one below a missing directory was created; in the next run both were
\* left alone, the content being the same.
C18_Witness ==
  /\ prev.valid
  /\ Len(steps) = 2 /\ Len(prev.steps) = 2
  /\ steps[1].via \in {"copyFile", "writeTextFile"}
  /\ steps[1].overwrite
  /\ prev.steps[1].outcome = "updated"
  /\ prev.steps[2].outcome = "created"
  /\ ~pathExists(prev.steps[2].before, dirname(resolve(prev.steps[2].output)))
  /\ steps[1].outcome = "skipped" /\ steps[2].outcome = "skipped"

\* the message of an output skipped because the content is the same
SkippedIdentical(output) == LogEntry("skip", "- Skipped: " \o output \o " (content identical)")

\* the steps of the current run that placed a local path
PathSteps == { k \in 1..Len(steps) : fetched[steps[k].res].localPath.def }

\* what C19 promises of the step st, which placed src at dest
TruthfulSkip(st, src, dest, isDir) ==
  /\ st.logs = <<SkippedNoOverwrite(st.output)>>
     => ~st.overwrite /\ pathExists(st.before, dest)
  /\ st.logs = <<SkippedIdentical(st.output)>>
     => /\ st.overwrite
        /\ pathExists(st.before, dest)
        /\ TrueCopy(st.before, src, dest, isDir)

\* C19 as stated: whenever runSync logs "- Skipped: <output> (already exists,
\* overwrite: false)" the resource has overwrite false and the destination
\* existed before the output was processed; whenever it logs "- Skipped:
\* <output> (content identical)" the resource has overwrite true and the
\* destination existed with content equal to the source.
C19_AsStated ==
  \A k \in PathSteps :
    TruthfulSkip(steps[k], fetched[steps[k].res].localPath.v, resolve(steps[k].output),
                 fetched[steps[k].res].isDirectory)

\* exactly one of content and localPath is set, and isDirectory is false
\* whenever content is set
WellShaped(fetchedResource) ==
  /\ fetchedResource.content.def # fetchedResource.localPath.def
  /\ fetchedResource.content.def => fetchedResource.isDirectory = FALSE

\* the resource comes from one of the built-in plugins
FromBuiltin(fetchedResource) ==
  resolvePlugin(registry, fetchedResource.definition.plugin).plugin.impl
    \in {"LocalPlugin", "HttpPlugin"}

\* C20 as stated: every FetchedResource returned by fetchResources has exactly
\* one of content and localPath set, and has isDirectory false whenever
\* content is set.
C20_AsStated ==
  (FetchResourcesDone /\ returned.def)
  => \A i \in 1..Len(returned.v) : WellShaped(returned.v[i])

\* C20, amended: every FetchedResource that fetchResources returns for a
\* resource of the built-in local or http plugin has exactly one of content
\* and localPath set, and has isDirectory false whenever content is set.
C20_BuiltinShape ==
  (FetchResourcesDone /\ returned.def)
  => \A i \in 1..Len(returned.v) : FromBuiltin(returned.v[i]) => WellShaped(returned.v[i])

\* C20 witness: fetchResources returned a local resource, which has a
\* localPath and no content, and an HTTP resource, which has content and no
\* localPath.
C20_Witness ==
  /\ FetchResourcesDone /\ returned.def
  /\ \E i, j \in 1..Len(returned.v) :
       /\ returned.v[i].definition.plugin = "local"
       /\ returned.v[i].localPath.def /\ ~returned.v[i].content.def
       /\ returned.v[j].definition.plugin = "http"
       /\ returned.v[j].content.def /\ ~returned.v[j].localPath.def

\* ---- C21: a built-in plugin's fetch validates before it acts ----
\* the fields of a config that break the schema the plugin declares
\* (LocalPlugin.schema, HttpPlugin.schema): a required field that is missing
\* or empty, a value of the wrong type, a number out of range, a method that
\* is not in the enumeration, a url that is no HTTP(S) URL
SchemaOffences(plugin, cfg) ==
  IF ~IsObject(cfg) THEN {"config"}
  ELSE IF plugin = "local" THEN (IF cfg.path = "" THEN {"path"} ELSE {})
  ELSE
    (IF "url" \notin DOMAIN cfg THEN {"url"}
     ELSE IF cfg.url = "" THEN {"url"}
     ELSE IF SubSeq(cfg.url, 1, 7) # "http://" /\ SubSeq(cfg.url, 1, 8) # "https://"
     THEN {"url"} ELSE {})
    \cup (IF "headers" \notin DOMAIN cfg THEN {}
          ELSE IF cfg.headers.type # "object" THEN {"headers"}
          ELSE { "headers." \o cfg.headers.v[i].key :
                   i \in { j \in 1..Len(cfg.headers.v) :
                             cfg.headers.v[j].value.type # "string" } })
    \cup (IF "timeout" \in DOMAIN cfg
             /\ (cfg.timeout.type # "number" \/ cfg.timeout.v \notin 1000..300000)
          THEN {"timeout"} ELSE {})
    \cup (IF "method" \in DOMAIN cfg
             /\ (cfg.method.type # "string"
                 \/ toUpperCase(cfg.method.v)
                      \notin {"GET", "POST", "PUT", "PATCH", "DELETE", "HEAD"})
          THEN {"method"} ELSE {})
    \cup (IF "body" \in DOMAIN cfg /\ cfg.body.type # "string" THEN {"body"} ELSE {})

\* the descriptors of the call that name a built-in plugin whose validate
\* rejects their config
Rejected ==
  { k \in 1..Len(resources) :
      /\ resources[k].plugin \in {"local", "http"}
      /\ PluginValidate(resolvePlugin(registry, resources[k].plugin).plugin.impl,
                        resources[k].pluginConfig) # NoError }

\* the error is a PluginConfigurationError of the plugin that names a field
\* of the config that breaks the schema
ConfigurationErrorOf(e, plugin, cfg) ==
  /\ e.kind = "PluginConfigurationError"
  /\ e.path = plugin
  /\ Contains(e.msg, "Plugin \"" \o plugin \o "\"")
  /\ \E field \in SchemaOffences(plugin, cfg) :
       Contains(e.msg, "Invalid configuration for field \"" \o field \o "\":")

\* fetch, called on descriptor k without a call of validate before it, fails
\* with the configuration error and has made no stat call and no request
FetchRejects(k) ==
  LET d == resources[k]
      r == PluginFetch(resolvePlugin(registry, d.plugin).plugin.impl, fs, d.pluginConfig)
  IN  /\ ~r.ok
      /\ ConfigurationErrorOf(r.err, d.plugin, d.pluginConfig)
      /\ r.io = <<>>
      /\ \A i \in 1..Len(io) : io[i].res # k
      /\ (\E c \in 1..Len(fetchCalls) : fetchCalls[c] = k)
           => /\ pc = "done"
              /\ thrown.kind = "ResourceError"
              /\ Contains(thrown.msg, r.err.msg)

\* C21: for every config that LocalPlugin.validate or HttpPlugin.validate
\* rejects, the plugin's fetch fails with a PluginConfigurationError that
\* carries the plugin name and the offending field, and no stat call and no
\* HTTP request is made for it, though nobody called validate before fetch;
\* and a config that breaks the plugin's schema is rejected.
C21_ValidateBeforeActing ==
  env.entry = "fetchResources"
  => /\ \A k \in Rejected : FetchRejects(k)
     /\ \A k \in 1..Len(resources) :
          (resources[k].plugin \in {"local", "http"}
           /\ SchemaOffences(resources[k].plugin, resources[k].pluginConfig) # {})
          => k \in Rejected

\* fetchResources ran into a rejected config after it had fetched a resource
\* with a stat call or a request: the rejected one was passed to fetch and
\* left no trace in the I/O
C21_Witness ==
  /\ env.entry = "fetchResources"
  /\ pc = "done"
  /\ Len(resources) = 3
  /\ 3 \in Rejected
  /\ resources[3].plugin = "http"
  /\ "timeout" \in DOMAIN resources[3].pluginConfig
  /\ fetchCalls = <<1, 2, 3>>
  /\ Len(io) = 2
  /\ io[1].call.op = "stat"
  /\ io[2].call.op = "fetch"
  /\ io[2].call.method = "POST"
  /\ thrown # NoError

\* ---- C22: quiet mode suppresses all output ----
\* what the process has written to stdout and stderr: the messages of the
\* ConsoleLogger runSync made, and what was written with console.* directly
Written == ConsoleLogger(env.quiet, logs) \o console

\* C22 as stated: with quiet = true and no custom logger, runSync writes
\* nothing to the console, whatever the outcome of each output: created,
\* updated, skipped, placed by symlink, placed by copy after a failed symlink,
\* or failed.
C22_AsStated ==
  (env.entry = "cli" /\ env.command = "sync" /\ env.quiet) => Written = <<>>

\* ---- C23: init never clobbers an existing configuration ----
\* the project the command was started in
ProjectAtStart == IF steps = <<>> THEN fs ELSE steps[1].before

\* a .knowhubrc* file is in the current directory
RcFileExists(f) == \E p \in DOMAIN f : Len(p) = 1 /\ startsWith(p[1], ".knowhubrc")

\* package.json is a JSON file with a "knowhub" field
PackageHasKnowhub(f) ==
  /\ <<"package.json">> \in DOMAIN f
  /\ f[<<"package.json">>].t = "file"
  /\ Contains(f[<<"package.json">>].c, "\"knowhub\":")
  /\ JSONParse(f[<<"package.json">>].c).ok

InitFinished == env.entry = "cli" /\ env.command = "init" /\ pc = "done"

\* C23 as stated: init writes .knowhubrc.ts only when no knowhub configuration
\* exists; if any .knowhubrc* file exists in the current directory, or
\* package.json has a "knowhub" field, init reports an error, exits non-zero
\* and writes no file.
C23_AsStated ==
  (InitFinished /\ (RcFileExists(ProjectAtStart) \/ PackageHasKnowhub(ProjectAtStart)))
  => /\ exitCode # 0
     /\ fs = ProjectAtStart
     /\ \E i \in 1..Len(console) :
          Contains(console[i], "Failed to create configuration template")

\* ---- C24: one outcome per output ----
\* the steps of the run with the given outcome
StepsWith(outcome) == { k \in 1..Len(steps) : steps[k].outcome = outcome }

RECURSIVE SumCreated(_)
SumCreated(k) == IF k = 0 THEN 0 ELSE steps[k].created + SumCreated(k - 1)

RECURSIVE SumUpdated(_)
SumUpdated(k) == IF k = 0 THEN 0 ELSE steps[k].updated + SumUpdated(k - 1)

\* the files the step wrote: those that were not there before, or held
\* something else
FilesWritten(st) ==
  { q \in DOMAIN st.after :
      st.after[q].t = "file" /\ (q \notin DOMAIN st.before \/ st.before[q] # st.after[q]) }

\* a run of runSync that is not a dry run and reached the placement stage
PlacementRun ==
  env.entry = "cli" /\ env.command = "sync" /\ ~env.dryRun /\ pc \in {"place", "summary", "exit", "done"}
  /\ Len(fetched) = Len(config.resources)

\* the output contributed 1 to exactly one of created, updated, skipped and
\* errors, and nothing to the others
ExactlyOne(st) ==
  \/ st.outcome = "created" /\ st.created = 1 /\ st.updated = 0
  \/ st.outcome = "updated" /\ st.created = 0 /\ st.updated = 1
  \/ st.outcome \in {"skipped", "failed"} /\ st.created = 0 /\ st.updated = 0

\* the counts of the result are the sums over the outputs processed
CountsAddUp ==
  /\ result.created = SumCreated(Len(steps))
  /\ result.updated = SumUpdated(Len(steps))
  /\ result.skipped = Cardinality(StepsWith("skipped"))
  /\ Len(result.errors) = Cardinality(StepsWith("failed"))

ShapeOk(value) ==
  /\ value.kind \in {"function", "object"}
  /\ ~value.throws
  /\ value.name # ""
  /\ value.hasFetch

\* the exports of a module in the order of the claim: the default export
\* first, then the other exports in enumeration order
InClaimedOrder(m) ==
  SelectSeq(m.exports, LAMBDA e : e.name = "default")
  \o SelectSeq(m.exports, LAMBDA e : e.name # "default")

\* the exports of the module that pass the shape check, in that order
Candidates(m) == SelectSeq(InClaimedOrder(m), LAMBDA e : ShapeOk(e.value))

\* the calls of loadPlugin whose import succeeded
ModuleLoads ==
  { k \in 1..Len(steps) : steps[k].op = "loadPlugin" /\ PluginModule(steps[k].arg).ok }

\* C25 as stated: loadPlugin considers the default export (as a constructor,
\* then as an object) and then every other named export in enumeration order,
\* registers the first candidate that has a non-empty name and a callable
\* fetch, and fails only when no export of the module passes that check.
C25_AsStated ==
  env.entry = "registry"
  => \A k \in ModuleLoads :
       LET c == steps[k]
           found == Candidates(PluginModule(c.arg))
       IN  /\ c.ok <=> found # <<>>
           /\ c.ok => c.after = register(c.before, Plugin(Head(found).value.name,
                                                          Head(found).value.impl))

\* ------------------------------------------------------------------ C26
\* the plugin modules of the configuration, loaded into the built-in registry
PluginsLoaded == loadPlugins(BuiltinRegistry, config.plugins, <<>>)

\* the configuration stage fails before any resource is validated
LoadingFails == ~config.found \/ config.resources = <<>> \/ ~PluginsLoaded.ok

\* the plugins load and validateResource rejects a resource
ValidationFails ==
  /\ ~LoadingFails
  /\ \E i \in 1..Len(config.resources) :
       ~validateResource(PluginsLoaded.registry, config.resources[i],
                         "resources[" \o IndexStr(i) \o "]").ok

\* the configuration is accepted and the fetch of one of its resources fails
FetchFails ==
  /\ ~LoadingFails /\ ~ValidationFails
  /\ Len(resources) = Len(config.resources)
  /\ Failing # {}

\* runSync has returned to the cli
RunSyncReturned == env.command = "sync" /\ pc \in {"exit", "done"}

\* nothing was placed and the result carries one error and no count
Aborted ==
  /\ steps = <<>>
  /\ result.created = 0 /\ result.updated = 0 /\ result.skipped = 0
  /\ Len(result.errors) = 1

\* a stage has started only if the stages before it have completed
StagesInOrder ==
  /\ (pc \in {"fetch", "place", "summary"} \/ fetchCalls # <<>> \/ steps # <<>>)
     => /\ ~LoadingFails /\ ~ValidationFails
        /\ registry = PluginsLoaded.registry
        /\ Len(resources) = Len(config.resources)
  /\ (pc \in {"place", "summary"} \/ steps # <<>>)
     => /\ Len(fetched) = Len(config.resources)
        /\ fetchCalls = [i \in 1..Len(config.resources) |-> i]

DispatchResources ==
  ResourcesOf({"a.md", "dir"}, BOOLEAN, {OkUrl}, {"content", "path", "nothing", "both"},
              {Some(TRUE), Some(FALSE)}, {<<"out">>, <<"nest/out", "out">>})

InitDispatch ==
  /\ Fresh
  /\ registry = BuiltinRegistry
  /\ resources = <<>>
  /\ config \in { [found |-> TRUE, plugins |-> <<"./custom-plugin.js">>,
                   resources |-> <<r>>] : r \in DispatchResources }
  /\ env \in [entry : {"cli"}, command : {"sync"}, dryRun : {FALSE}, quiet : {FALSE},
            symlinkOk : BOOLEAN]
  /\ fs \in InitialFs({"absent", "same", "other", "dir"}, {"absent", "dir"}, {"absent"})

SpecDispatch == InitDispatch /\ [][Next]_vars

\* the fetched resource the step k placed
Placing(k) == fetched[steps[k].res]

\* its plugin is the local one and its metadata carry symlink: true
LocalWithSymlink(k) ==
  /\ Placing(k).definition.plugin = "local"
  /\ Placing(k).pluginMetadata.def
  /\ Placing(k).pluginMetadata.v.symlink = TRUE

\* the step k did to the filesystem what the call r does and nothing else
DidCall(k, r) == steps[k].after = r.fs /\ ~steps[k].usedSymlink

\* what C27 promises of the step k
DispatchAt(k) ==
  /\ Placing(k).content.def
     => /\ steps[k].via = "writeTextFile"
        /\ DidCall(k, writeTextFile(steps[k].before, resolve(steps[k].output),
                                    Placing(k).content.v, steps[k].overwrite))
  /\ steps[k].via = "symlinkOrCopy"
     <=> (~Placing(k).content.def /\ Placing(k).localPath.def /\ LocalWithSymlink(k))
  /\ (~Placing(k).content.def /\ Placing(k).localPath.def /\ ~LocalWithSymlink(k))
     => IF Placing(k).isDirectory
        THEN /\ steps[k].via = "copyDirectory"
             /\ DidCall(k, copyDirectory(steps[k].before, Placing(k).localPath.v,
                                         resolve(steps[k].output), steps[k].overwrite))
        ELSE /\ steps[k].via = "copyFile"
             /\ DidCall(k, copyFile(steps[k].before, Placing(k).localPath.v,
                                    resolve(steps[k].output), steps[k].overwrite))

\* C27: placeResourceAtOutput writes text (writeTextFile) whenever the
\* fetched resource has content, whatever its localPath and metadata; it
\* goes through symlinkOrCopy only when the plugin is "local" and
\* pluginMetadata.symlink is true; for any other plugin or symlink value a
\* localPath is copied, by copyDirectory when isDirectory and by copyFile
\* otherwise.
C27_Dispatch == \A k \in 1..Len(steps) : DispatchAt(k)

\* C27 witness: on a platform that makes symlinks, a path returned by the
\* custom plugin with symlink: true in its metadata was placed by copyFile,
\* and the destination is a regular file.
C27_Witness ==
  /\ pc = "done" /\ env.symlinkOk
  /\ Len(steps) = 1
  /\ Placing(1).definition.plugin = "custom"
  /\ Placing(1).pluginMetadata.def /\ Placing(1).pluginMetadata.v.symlink = TRUE
  /\ steps[1].via = "copyFile" /\ steps[1].outcome = "created"
  /\ NodeAt(fs, resolve(steps[1].output)).t = "file"

\* content wins over a path: the custom plugin returned content together
\* with a directory path, and the destination was written as text
C27_ContentWins ==
  /\ pc = "done"
  /\ Len(steps) = 1
  /\ Placing(1).content.def /\ Placing(1).localPath.def /\ Placing(1).isDirectory
  /\ steps[1].via = "writeTextFile" /\ steps[1].outcome = "created"
  /\ Holds(fs, resolve(steps[1].output), Placing(1).content.v)

\* ------------------------------------------------------------------ C28
\* the name-to-plugin mapping of a registry
Mapping(reg) == { <<reg[i].key, reg[i].value>> : i \in 1..Len(reg) }

\* C28: the fetch and placement stages never change the plugin registry:
\* across every step of fetchResources and of the placement of outputs the
\* registry, and so its name-to-plugin mapping, stays what it was; under the
\* command line the registry changes only while the configuration is loaded
\* (loadPlugins) and when a new process starts with the built-in plugins.
C28_RegistryFrame ==
  /\ [][(pc \in {"fetch", "place", "summary", "exit"})
        => (registry' = registry /\ Mapping(registry') = Mapping(registry))]_vars
  /\ [][registry' # registry => (pc = "load" \/ (pc = "done" /\ run' = run + 1))]_vars

\* C28 witness: the configuration loaded a plugin besides the built-in ones,
\* two resources were fetched, one of them by that plugin, their outputs were
\* placed, and the registry is still the one configuration loading left.
C28_Witness ==
  /\ RunSyncReturned /\ ~env.dryRun
  /\ has(registry, "custom") /\ ~has(BuiltinRegistry, "custom")
  /\ registry = PluginsLoaded.registry
  /\ Len(fetched) = 2 /\ fetchCalls = <<1, 2>>
  /\ \E i \in 1..2 : fetched[i].definition.plugin = "custom"
  /\ steps # <<>>

\* ------------------------------------------------------------------ C29
\* C29 as stated: with dryRun = true runSync performs no fetch I/O: no
\* plugin fetch is invoked for any resource, so no HTTP request is issued
\* and no source path is accessed.
C29_AsStated ==
  (env.command = "sync" /\ env.dryRun) => (fetchCalls = <<>> /\ io = <<>>)

\* ------------------------------------------------------------------ C30
\* the paths at which two filesystems differ
Changed(before, after) ==
  { p \in DOMAIN before \cup DOMAIN after : NodeAt(before, p) # NodeAt(after, p) }

\* C30 as stated: a skipped output is a no-op on disk: whenever runSync
\* counts an output as skipped, processing that output wrote no file, made
\* no symlink and created no directory.
C30_AsStated ==
  \A k \in 1..Len(steps) :
    steps[k].outcome = "skipped" => Changed(steps[k].before, steps[k].after) = {}

====
